---- MODULE Spec2Model ----
(***************************************************************************)
(* State-machine model of the Splits Coordination Service                  *)
(* (SplitsService, splits.service.ts): the split / participant /           *)
(* signature tables, and the request handlers createSplit,                 *)
(* generateApproveIntent, submitSignature and settleSplit, cut into steps  *)
(* at their database and chain suspension points (await).                  *)
(*                                                                         *)
(* Step structure.  A handler's database read (findSplitOrThrow) and the   *)
(* synchronous code that follows it up to the next await form one step:    *)
(* that code reads only the snapshot the query returned and the clock.     *)
(* What the handler decided on the snapshot (the row it will write, the    *)
(* items it sent to the chain) is kept in local[p] and applied by a later  *)
(* step, so other handlers' writes can land in between.                    *)
(***************************************************************************)
EXTENDS Integers, Sequences, FiniteSets, TLC

(***************************************************************************)
(* Bounds of the model.                                                    *)
(***************************************************************************)
MaxSplits == 2        \* Split rows ever inserted (SERIAL ids 1..MaxSplits)
MaxSigs == 2          \* SplitSignature rows ever inserted
MaxNowSeconds == 2    \* the clock runs over seconds 1..MaxNowSeconds
MsPerSecond == 2      \* ticks of a Date per Unix second (1000 in the code)

\* null of a nullable column / an absent optional value
NULL == -1

\* handler slots: at most two requests are in flight at the same time
Procs == {1, 2}
SplitIds == 1..MaxSplits
SigIds == 1..MaxSigs

(***************************************************************************)
(* Addresses.  An address arrives in checksum (EIP-55) or all-lower form;  *)
(* getAddress normalises to checksum form, toLowerCase to lower form.      *)
(***************************************************************************)
ChecksumAddrs == {"0xA", "0xB"}
LowerAddrs == {"0xa", "0xb"}
AddrInputs == ChecksumAddrs \cup LowerAddrs

getAddress(a) ==
  CASE a \in {"0xA", "0xa"} -> "0xA"
    [] a \in {"0xB", "0xb"} -> "0xB"
    [] OTHER -> a

toLowerCase(a) ==
  CASE a \in {"0xA", "0xa"} -> "0xa"
    [] a \in {"0xB", "0xb"} -> "0xb"
    [] a \in {"0xC0DE", "0xc0de"} -> "0xc0de"
    [] OTHER -> a

\* the service's configuration (constructor): chain, coordinator address
Config == [chainId |-> 534351, contractAddress |-> "0xC0DE"]

\* Math.floor(date.getTime() / 1000), 0n for a null date
DateToUnix(date) == IF date = NULL THEN 0 ELSE date \div MsPerSecond

(***************************************************************************)
(* Rows.                                                                   *)
(***************************************************************************)
NoRow == [exists |-> FALSE]

\* SignatureStatus enum
SignatureStatus == {"PENDING", "VALID", "USED_ONCHAIN", "EXPIRED", "REJECTED"}

\* the ApproveSplit message of the typed data (domain: Config)
ApproveSplitMessage(participant, splitIdValue, token, payer, amount, deadlineUnix, salt) ==
  [participant |-> participant, splitId |-> splitIdValue, token |-> token,
   payer |-> payer, amount |-> amount, deadline |-> deadlineUnix, salt |-> salt]

\* A 65-byte signature is determined by its signer and the message signed.
SignTypedData(signer, message) == [signer |-> signer, message |-> message]

\* Buffer.alloc(0): the empty signature of a PENDING row
EmptySignature == [signer |-> "none", message |-> <<>>]

\* ethers.verifyTypedData: the signer when the blob signs this very message,
\* otherwise some unrelated address
verifyTypedData(message, signature) ==
  IF signature.message = message THEN signature.signer ELSE "0xUnrelated"


(***************************************************************************)
(* Request inputs.                                                         *)
(***************************************************************************)
\* a deadline string of a request: absent, a string of digits, or ISO-8601
DeadlineAbsent == [kind |-> "absent"]
DeadlineDigits(n) == [kind |-> "digits", value |-> n]
DeadlineIso(date) == [kind |-> "iso", date |-> date]

Leg(participant, amount) == [participant |-> participant, amount |-> amount]

\* leg lists of createSplit requests: empty, a non-positive amount, a
\* duplicate participant (in another letter case), both, and two valid ones
LegInputs ==
  { <<>>,
    <<Leg("0xa", 1)>>,
    <<Leg("0xA", 0)>>,
    <<Leg("0xA", 1), Leg("0xB", 2)>>,
    <<Leg("0xA", 1), Leg("0xa", 2)>>,
    <<Leg("0xA", 0), Leg("0xa", 1)>> }

CreateDeadlineInputs == {DeadlineAbsent, DeadlineIso(1 * MsPerSecond)}

CreateSplitDtos ==
  [payer : {"0xPayer"}, token : {"0xToken"}, legs : LegInputs,
   deadline : CreateDeadlineInputs, createOnchain : BOOLEAN]

\* the createSplit requests of the concurrent specification: one leg, no deadline
RaceCreateSplitDtos ==
  [payer : {"0xPayer"}, token : {"0xToken"}, legs : {<<Leg("0xa", 1)>>},
   deadline : {DeadlineAbsent}, createOnchain : BOOLEAN]

\* ids the coordinator contract may mint: one equal to a local id, one not
OnchainIds == {MaxSplits + 5}

(***************************************************************************)
(* State.                                                                  *)
(***************************************************************************)
VARIABLES
  splits,         \* table Split: id -> row (NoRow: never inserted or deleted)
  participants,   \* table SplitParticipant: split id -> its rows, in insertion order
  signatures,     \* table SplitSignature: id -> row (NoRow: none)
  nextSplitId,    \* Split.id SERIAL
  nextSigId,      \* SplitSignature.id SERIAL
  users,          \* table User: its rows, in insertion order
  executor,       \* whether EXECUTOR_PRIVATE_KEY is configured (writeContract)
  now,            \* the clock, in Date ticks
  pc,             \* per handler slot: the await it is suspended at
  local,          \* per handler slot: the handler's local variables
  last            \* the last thing a handler did towards its caller or the chain

store == <<splits, participants, signatures, nextSplitId, nextSigId>>
vars == <<splits, participants, signatures, nextSplitId, nextSigId, users, executor, now, pc, local, last>>

NoLocal == [op |-> "none"]

\* a handler's answer: status "ok" or the exception class thrown
Ret(op, split, status, msg) == [op |-> op, ev |-> "return", split |-> split, status |-> status, msg |-> msg]
\* a handler suspended at an await without having answered
Suspended(op, split) == [op |-> op, ev |-> "await"]

\* a request is taken by the lowest free handler slot
Idle(p) == pc[p] = "idle" /\ \A q \in 1..(p - 1) : pc[q] # "idle"

Finish(p, ret) ==
  /\ pc' = [pc EXCEPT ![p] = "idle"]
  /\ local' = [local EXCEPT ![p] = NoLocal]
  /\ last' = ret

Suspend(p, at, loc, ev) ==
  /\ pc' = [pc EXCEPT ![p] = at]
  /\ local' = [local EXCEPT ![p] = loc]
  /\ last' = ev

RECURSIVE SumAmounts(_)
SumAmounts(rows) == IF rows = <<>> THEN 0 ELSE Head(rows).amount + SumAmounts(Tail(rows))

Init ==
  /\ splits = [id \in SplitIds |-> NoRow]
  /\ participants = [id \in SplitIds |-> <<>>]
  /\ signatures = [id \in SigIds |-> NoRow]
  /\ nextSplitId = 1
  /\ nextSigId = 1
  /\ users = <<>>
  /\ executor \in BOOLEAN
  /\ now = 1 * MsPerSecond
  /\ pc = [p \in Procs |-> "idle"]
  /\ local = [p \in Procs |-> NoLocal]
  /\ last = [op |-> "none", ev |-> "none"]

\* time passes, a second at a time
Tick ==
  /\ now + MsPerSecond <= MaxNowSeconds * MsPerSecond
  /\ now' = now + MsPerSecond
  /\ UNCHANGED <<store, users, executor, pc, local, last>>

(***************************************************************************)
(* createSplit                                                             *)
(***************************************************************************)
\* parseIsoDeadline, applied when dto.deadline is non-empty
parseIsoDeadline(value) ==
  IF value.kind = "digits" /\ value.value = 0 THEN NULL ELSE value.date

\* legs as mapped at the head of createSplit: address normalised, BigInt amount
NormalizeLegs(legs) ==
  [i \in 1..Len(legs) |-> Leg(getAddress(legs[i].participant), legs[i].amount)]

\* the precondition checks with the duplicate test made before the amounts
CreateSplitCheckDuplicatesFirst(legs) ==
  IF Len(legs) = 0 THEN "BadRequestException"
  ELSE IF Cardinality({legs[i].participant : i \in 1..Len(legs)}) # Len(legs)
    THEN "ConflictException"
  ELSE IF \E i \in 1..Len(legs) : legs[i].amount <= 0 THEN "BadRequestException"
  ELSE IF SumAmounts(legs) <= 0 THEN "BadRequestException"
  ELSE "ok"

\* the precondition checks of createSplit, in the code's order; the
\* exception thrown, or "ok"
CreateSplitCheck(legs) ==
  IF Len(legs) = 0 THEN "BadRequestException"
  ELSE IF \E i \in 1..Len(legs) : legs[i].amount <= 0 THEN "BadRequestException"
  ELSE IF Cardinality({legs[i].participant : i \in 1..Len(legs)}) # Len(legs)
    THEN "ConflictException"
  ELSE IF SumAmounts(legs) <= 0 THEN "BadRequestException"
  ELSE "ok"

\* a Split row whose totalAmount is the first leg's amount, not the sum
NewSplitRowTotalOfFirstLeg(dto, legs) ==
  [exists |-> TRUE,
   chainId |-> Config.chainId,
   contract |-> Config.contractAddress,
   splitIdOnchain |-> NULL,
   payer |-> getAddress(dto.payer),
   token |-> getAddress(dto.token),
   totalAmount |-> legs[1].amount,
   deadline |-> IF dto.deadline.kind = "absent" THEN NULL ELSE parseIsoDeadline(dto.deadline),
   settled |-> FALSE]

\* the Split row of prisma.split.create
NewSplitRow(dto, legs) ==
  [exists |-> TRUE,
   chainId |-> Config.chainId,
   contract |-> Config.contractAddress,
   splitIdOnchain |-> NULL,
   payer |-> getAddress(dto.payer),
   token |-> getAddress(dto.token),
   totalAmount |-> SumAmounts(legs),
   deadline |-> IF dto.deadline.kind = "absent" THEN NULL ELSE parseIsoDeadline(dto.deadline),
   settled |-> FALSE]

\* a nested create that writes a participant row for the first leg only
NewParticipantRowOfFirstLeg(legs) ==
  <<[participant |-> legs[1].participant, amount |-> legs[1].amount,
     approvedOffchainAt |-> NULL, usedOnchainAt |-> NULL]>>

\* the SplitParticipant rows of the nested create
NewParticipantRows(legs) ==
  [i \in 1..Len(legs) |->
     [participant |-> legs[i].participant, amount |-> legs[i].amount,
      approvedOffchainAt |-> NULL, usedOnchainAt |-> NULL]]

\* a delete that leaves the split's participants and signatures behind
DeleteSplitRowOnly(id) ==
  /\ splits' = [splits EXCEPT ![id] = NoRow]
  /\ UNCHANGED <<participants, signatures>>

\* prisma.split.delete: the row and, by ON DELETE CASCADE, its participants
\* and signatures
DeleteSplit(id) ==
  /\ splits' = [splits EXCEPT ![id] = NoRow]
  /\ participants' = [participants EXCEPT ![id] = <<>>]
  /\ signatures' = [s \in SigIds |->
       IF signatures[s].exists /\ signatures[s].splitId = id THEN NoRow ELSE signatures[s]]

\* an update that writes the row back as createSplit inserted it (settled
\* false) together with the on-chain id
SetSplitIdOnchainOnInsertedRow(row, onchainId) ==
  [row EXCEPT !.splitIdOnchain = onchainId, !.settled = FALSE]

\* prisma.split.update({ data: { splitIdOnchain } })
SetSplitIdOnchain(row, onchainId) == [row EXCEPT !.splitIdOnchain = onchainId]

\* createSplit up to its first chain await: checks, the insert, and for
\* createOnchain the call of contract.createSplit
CreateSplit(p, dto) ==
  /\ Idle(p)
  /\ LET legs == NormalizeLegs(dto.legs)
         check == CreateSplitCheck(legs)
         id == nextSplitId
     IN IF check # "ok"
        THEN /\ Finish(p, Ret("createSplit", NULL, check, "precondition"))
             /\ UNCHANGED <<store, users, executor, now>>
        ELSE /\ nextSplitId <= MaxSplits
             /\ splits' = [splits EXCEPT ![id] = NewSplitRow(dto, legs)]
             /\ participants' = [participants EXCEPT ![id] = NewParticipantRows(legs)]
             /\ nextSplitId' = nextSplitId + 1
             /\ UNCHANGED <<signatures, nextSigId, users, executor, now>>
             /\ IF ~dto.createOnchain
                THEN Finish(p, Ret("createSplit", id, "ok", "txHash null"))
                ELSE IF ~executor
                THEN Finish(p, Ret("createSplit", id, "InternalServerErrorException", "Executor nao configurado"))
                ELSE Suspend(p, "create_tx", [op |-> "createSplit", split |-> id],
                             Suspended("createSplit", id))

\* await contract.createSplit(...): the transaction is accepted, or the call
\* fails and the catch block deletes the split
CreateTx(p, sent) ==
  /\ pc[p] = "create_tx"
  /\ IF sent
     THEN /\ Suspend(p, "create_wait", local[p], Suspended("createSplit", local[p].split))
          /\ UNCHANGED <<store, users, executor, now>>
     ELSE /\ DeleteSplit(local[p].split)
          /\ Finish(p, Ret("createSplit", local[p].split, "BadRequestException", "Falha ao criar split on-chain"))
          /\ UNCHANGED <<nextSplitId, nextSigId, users, executor, now>>

\* await tx.wait(): the receipt (with the SplitCreated id decoded from the
\* coordinator's logs, or NULL when there is none), or a failure
CreateReceipt(p, mined, onchainId) ==
  /\ pc[p] = "create_wait"
  /\ LET id == local[p].split
     IN IF ~mined
        THEN /\ DeleteSplit(id)
             /\ Finish(p, Ret("createSplit", id, "BadRequestException", "Falha ao criar split on-chain"))
             /\ UNCHANGED <<nextSplitId, nextSigId, users, executor, now>>
        ELSE /\ splits' = [splits EXCEPT ![id] =
                  IF onchainId # NULL THEN SetSplitIdOnchain(splits[id], onchainId) ELSE splits[id]]
             /\ Finish(p, Ret("createSplit", id, "ok", "txHash receipt"))
             /\ UNCHANGED <<participants, signatures, nextSplitId, nextSigId, users, executor, now>>


(***************************************************************************)
(* Helpers shared by the handlers that start with findSplitOrThrow         *)
(***************************************************************************)
\* a lookup that only checks that the row exists
findSplitWithoutConfigCheck(splitId) ==
  IF ~splits[splitId].exists THEN "NotFoundException" ELSE "ok"

\* findSplitOrThrow: the exception thrown on the row read, or "ok"
findSplitOrThrow(splitId) ==
  IF ~splits[splitId].exists THEN "NotFoundException"
  ELSE IF splits[splitId].chainId # Config.chainId THEN "BadRequestException"
  ELSE IF toLowerCase(splits[splitId].contract) # toLowerCase(Config.contractAddress)
    THEN "BadRequestException"
  ELSE "ok"

\* split.participants.find(leg => lower(leg.participant) = lower(participant)):
\* the index of the leg, 0 when there is none
FindLeg(splitId, participant) ==
  LET legs == participants[splitId]
      hits == {i \in 1..Len(legs) : toLowerCase(legs[i].participant) = toLowerCase(participant)}
  IN IF hits = {} THEN 0 ELSE CHOOSE i \in hits : \A j \in hits : i <= j

\* split.signatures: the ids of the split's signature rows (store order)
SplitSignatures(splitId) ==
  {s \in SigIds : signatures[s].exists /\ signatures[s].splitId = splitId}

\* split.signatures.find(sig => same participant, same salt): the id of the
\* first such row, 0 when there is none
FindSignature(splitId, participant, salt) ==
  LET hits == {s \in SplitSignatures(splitId) :
                 /\ toLowerCase(signatures[s].participant) = toLowerCase(participant)
                 /\ signatures[s].salt = salt}
  IN IF hits = {} THEN 0 ELSE CHOOSE s \in hits : \A t \in hits : s <= t

\* resolveSplitIdForSigning: the on-chain id if present, else the local id
resolveSplitIdForSigning(splitId) ==
  IF splits[splitId].splitIdOnchain # NULL THEN splits[splitId].splitIdOnchain ELSE splitId

\* parseDeadline: { date, unix } of a non-empty deadline string
parseDeadline(deadline) ==
  IF deadline.kind = "digits"
  THEN IF deadline.value = 0
       THEN [date |-> NULL, unix |-> 0]
       ELSE [date |-> deadline.value * MsPerSecond, unix |-> deadline.value]
  ELSE [date |-> deadline.date, unix |-> deadline.date \div MsPerSecond]

\* resolveApprovalDeadline: { deadlineDate, deadlineUnix }, or the exception
resolveApprovalDeadline(requestedDeadline, splitDeadline) ==
  IF requestedDeadline.kind # "absent"
  THEN LET parsed == parseDeadline(requestedDeadline)
       IN IF parsed.unix = 0
          THEN [err |-> "ok", deadlineDate |-> NULL, deadlineUnix |-> 0]
          ELSE IF splitDeadline # NULL /\ parsed.unix > DateToUnix(splitDeadline)
          THEN [err |-> "BadRequestException", deadlineDate |-> NULL, deadlineUnix |-> 0]
          ELSE [err |-> "ok", deadlineDate |-> parsed.date, deadlineUnix |-> parsed.unix]
  ELSE IF splitDeadline = NULL
  THEN [err |-> "ok", deadlineDate |-> NULL, deadlineUnix |-> 0]
  ELSE [err |-> "ok", deadlineDate |-> splitDeadline, deadlineUnix |-> DateToUnix(splitDeadline)]

(***************************************************************************)
(* generateApproveIntent                                                   *)
(***************************************************************************)
\* salts randomBytes(32) may return (two values, so that collisions happen)
Salts == {"s1", "s2"}
SaltOrder == <<"s1", "s2">>

\* the salts stored or about to be inserted
SaltsTaken ==
  {signatures[s].salt : s \in {t \in SigIds : signatures[t].exists}}
    \cup {local[q].row.salt : q \in {r \in Procs : pc[r] = "gen_insert"}}

\* what randomBytes(32) returns, up to the renaming of salts: a salt already
\* taken (a collision) or the first one that is not
SaltChoices ==
  SaltsTaken \cup
    {SaltOrder[i] : i \in {j \in 1..Len(SaltOrder) :
                             /\ SaltOrder[j] \notin SaltsTaken
                             /\ \A k \in 1..(j - 1) : SaltOrder[k] \in SaltsTaken}}

IntentDeadlineInputs == {DeadlineAbsent, DeadlineDigits(0)}

ApproveIntentDtos == [participant : {"0xA", "0xb"}, deadline : IntentDeadlineInputs]

RaceApproveIntentDtos == [participant : {"0xa"}, deadline : {DeadlineAbsent}]

\* generateApproveIntent calls suspended at their insert
PendingInserts == Cardinality({q \in Procs : pc[q] = "gen_insert"})

\* a row inserted with the leg's amount forgotten
NewSignatureRowWithoutAmount(splitId, participant, amount, deadlineDate, salt) ==
  [exists |-> TRUE, splitId |-> splitId, participant |-> participant, amount |-> 0,
   deadline |-> deadlineDate, salt |-> salt, status |-> "PENDING",
   signature |-> EmptySignature, reason |-> NULL]

\* the row of prisma.splitSignature.create
NewSignatureRow(splitId, participant, amount, deadlineDate, salt) ==
  [exists |-> TRUE, splitId |-> splitId, participant |-> participant, amount |-> amount,
   deadline |-> deadlineDate, salt |-> salt, status |-> "PENDING",
   signature |-> EmptySignature, reason |-> NULL]

\* generateApproveIntent up to its insert: the read, the checks, the salt
\* and the typed-data message
GenerateApproveIntent(p, splitId, dto, salt) ==
  /\ Idle(p)
  /\ nextSigId + PendingInserts <= MaxSigs
  /\ UNCHANGED <<store, users, executor, now>>
  /\ LET found == findSplitOrThrow(splitId)
         participant == getAddress(dto.participant)
         leg == FindLeg(splitId, participant)
     IN IF found # "ok" THEN Finish(p, Ret("generateApproveIntent", splitId, found, "findSplitOrThrow"))
        ELSE IF splits[splitId].settled
        THEN Finish(p, Ret("generateApproveIntent", splitId, "BadRequestException", "Split ja liquidado"))
        ELSE IF leg = 0
        THEN Finish(p, Ret("generateApproveIntent", splitId, "NotFoundException", "Participante nao encontrado"))
        ELSE LET resolved == resolveApprovalDeadline(dto.deadline, splits[splitId].deadline)
                 amount == participants[splitId][leg].amount
                 message == ApproveSplitMessage(participant, resolveSplitIdForSigning(splitId),
                              splits[splitId].token, splits[splitId].payer, amount,
                              resolved.deadlineUnix, salt)
             IN IF resolved.err # "ok"
                THEN Finish(p, Ret("generateApproveIntent", splitId, resolved.err, "Deadline excede o do split"))
                ELSE Suspend(p, "gen_insert",
                       [op |-> "generateApproveIntent", split |-> splitId, message |-> message,
                        row |-> NewSignatureRow(splitId, participant, amount, resolved.deadlineDate, salt)],
                       Suspended("generateApproveIntent", splitId))

\* a table without the unique index: every insert passes
NoUniqueIndex(row) == TRUE

\* whether the insert of row passes the unique index
\* SplitSignature_splitId_participant_salt_key
SaltIsUnique(row) ==
  \A s \in SigIds :
    signatures[s].exists =>
      ~(/\ signatures[s].splitId = row.splitId
        /\ signatures[s].participant = row.participant
        /\ signatures[s].salt = row.salt)

\* await prisma.splitSignature.create: the insert lands, or is refused by the
\* foreign key (the split was deleted meanwhile) or by the unique index
GenerateInsert(p) ==
  /\ pc[p] = "gen_insert"
  /\ LET row == local[p].row
     IN IF ~splits[row.splitId].exists
        THEN /\ Finish(p, Ret("generateApproveIntent", row.splitId, "PrismaError", "P2003 foreign key"))
             /\ UNCHANGED <<store, users, executor, now>>
        ELSE IF ~SaltIsUnique(row)
        THEN /\ Finish(p, Ret("generateApproveIntent", row.splitId, "PrismaError", "P2002 unique"))
             /\ UNCHANGED <<store, users, executor, now>>
        ELSE /\ signatures' = [signatures EXCEPT ![nextSigId] = row]
             /\ nextSigId' = nextSigId + 1
             /\ Finish(p, [Ret("generateApproveIntent", row.splitId, "ok", "typed data")
                             EXCEPT !.msg = local[p].message])
             /\ UNCHANGED <<splits, participants, nextSplitId, users, executor, now>>


(***************************************************************************)
(* submitSignature                                                         *)
(***************************************************************************)
\* the signature of signer over the typed data of row s, with split id sid
\* and deadline unix
SignatureOver(s, signer, sid, unix) ==
  SignTypedData(signer,
    ApproveSplitMessage(signatures[s].participant, sid, splits[signatures[s].splitId].token,
      splits[signatures[s].splitId].payer, signatures[s].amount, unix, signatures[s].salt))

\* the request of a client that signed the intent recorded in row s
SubmitDtoOfRow(s, signer, sid) ==
  [participant |-> signatures[s].participant, amount |-> signatures[s].amount,
   salt |-> signatures[s].salt, deadline |-> DeadlineAbsent,
   signature |-> SignatureOver(s, signer, sid, DateToUnix(signatures[s].deadline))]

\* a request that refers to no stored intent
StraySubmitDto ==
  [participant |-> "0xa", amount |-> 1, salt |-> "s1", deadline |-> DeadlineAbsent,
   signature |-> SignTypedData("0xA", <<>>)]

\* a request in the name of an address that is no participant of any split
StrangerSubmitDto == [StraySubmitDto EXCEPT !.participant = "0xUnrelated"]

\* submitSignature requests: for each stored intent of the split, the
\* requests signed by either wallet over the local or an on-chain split id,
\* and the participant's own request with one field changed
SubmitSignatureDtos(splitId) ==
  {StraySubmitDto, StrangerSubmitDto} \cup
  UNION { LET own == SubmitDtoOfRow(s, signatures[s].participant, splitId)
              unix == DateToUnix(signatures[s].deadline)
          IN { SubmitDtoOfRow(s, signer, sid) :
                 signer \in ChecksumAddrs, sid \in {splitId} \cup OnchainIds } \cup
             { [own EXCEPT !.participant = toLowerCase(@)],
               [own EXCEPT !.amount = @ + 1],
               [own EXCEPT !.salt = "s0"],
               [own EXCEPT !.deadline = DeadlineDigits(unix)],
               [own EXCEPT !.deadline = DeadlineDigits(unix + 1)],
               [own EXCEPT !.signature =
                  SignatureOver(s, signatures[s].participant, splitId, unix + 1)] } :
          s \in SplitSignatures(splitId) }

\* the submitSignature requests of the concurrent specification
RaceSubmitSignatureDtos(splitId) ==
  { [SubmitDtoOfRow(s, signatures[s].participant, sid) EXCEPT !.participant = toLowerCase(@)] :
      s \in SplitSignatures(splitId), sid \in {splitId} \cup OnchainIds }

\* data: { status: EXPIRED, reason }
MarkExpired(row) ==
  [row EXCEPT !.status = "EXPIRED", !.reason = "Assinatura expirada antes da validacao"]

\* data: { status: VALID, signature }
MarkValid(row, signature) == [row EXCEPT !.status = "VALID", !.signature = signature]

\* splitParticipant.update({ where: splitId_participant, data: { approvedOffchainAt } })
SetApprovedOffchainAt(rows, participant, at) ==
  [i \in 1..Len(rows) |->
     IF rows[i].participant = participant THEN [rows[i] EXCEPT !.approvedOffchainAt = at]
     ELSE rows[i]]

HasParticipantRow(splitId, participant) ==
  \E i \in 1..Len(participants[splitId]) : participants[splitId][i].participant = participant

\* an expiry test that takes "no deadline" (0) for a deadline long passed
ExpiresWithoutDeadline(recordDeadlineUnix, nowUnix) == recordDeadlineUnix < nowUnix

\* an expiry test that refuses the deadline's own second
IsExpiredAtDeadline(recordDeadlineUnix, nowUnix) ==
  recordDeadlineUnix # 0 /\ recordDeadlineUnix <= nowUnix

\* whether a stored deadline has passed at nowUnix: 0 is no deadline, and the
\* deadline's own second is still in time
IsExpired(recordDeadlineUnix, nowUnix) ==
  recordDeadlineUnix # 0 /\ recordDeadlineUnix < nowUnix

\* a compare-and-set update: it finds its row only while the row is PENDING
WriteAppliesIfPending(row) == row.exists /\ row.status = "PENDING"

\* whether splitSignature.update({ where: { id } }) finds its row: any
\* status will do
WriteApplies(row) == row.exists

\* a status check without the idempotent answer: a VALID row is verified again
StatusCheckWithoutIdempotence(status) ==
  IF status = "USED_ONCHAIN" THEN "ConflictException" ELSE "verify"

\* what submitSignature does on the status of the row it found: refuse a row
\* used on-chain, answer at once for a VALID row, verify any other row
StatusCheck(status) ==
  CASE status = "USED_ONCHAIN" -> "ConflictException"
    [] status = "VALID" -> "idempotent"
    [] OTHER -> "verify"

\* submitSignature's answer, with the id of the signature row it found (0: none)
SubmitRet(split, status, msg, sig) ==
  [op |-> "submitSignature", ev |-> "return", split |-> split, status |-> status,
   msg |-> msg, sig |-> sig]

\* submitSignature up to its write: the read and every check made on the
\* snapshot; the write decided on is left in local[p]
SubmitSignature(p, splitId, dto) ==
  /\ Idle(p)
  /\ UNCHANGED <<store, users, executor, now>>
  /\ LET found == findSplitOrThrow(splitId)
         participant == getAddress(dto.participant)
         leg == FindLeg(splitId, participant)
         sigId == FindSignature(splitId, participant, dto.salt)
         R(status, msg) == SubmitRet(splitId, status, msg, sigId)
     IN IF found # "ok" THEN Finish(p, R(found, "findSplitOrThrow"))
        ELSE IF splits[splitId].settled THEN Finish(p, R("BadRequestException", "Split ja liquidado"))
        ELSE IF leg = 0 THEN Finish(p, R("NotFoundException", "Participante nao encontrado"))
        ELSE IF participants[splitId][leg].amount # dto.amount
        THEN Finish(p, R("BadRequestException", "amount nao corresponde"))
        ELSE IF sigId = 0 THEN Finish(p, R("NotFoundException", "Salt nao encontrado"))
        ELSE IF StatusCheck(signatures[sigId].status) = "ConflictException"
        THEN Finish(p, R("ConflictException", "Assinatura ja utilizada on-chain"))
        ELSE IF StatusCheck(signatures[sigId].status) = "idempotent"
        THEN Finish(p, R("ok", "already VALID"))
        ELSE LET recordDeadlineUnix == DateToUnix(signatures[sigId].deadline)
                 message == ApproveSplitMessage(participant, resolveSplitIdForSigning(splitId),
                              splits[splitId].token, splits[splitId].payer,
                              participants[splitId][leg].amount, recordDeadlineUnix, dto.salt)
                 recovered == verifyTypedData(message, dto.signature)
                 write(status) ==
                   [op |-> "submitSignature", split |-> splitId, sig |-> sigId,
                    participant |-> participant, write |-> status,
                    signature |-> dto.signature, at |-> now]
             IN IF /\ dto.deadline.kind # "absent"
                   /\ parseDeadline(dto.deadline).unix # recordDeadlineUnix
                THEN Finish(p, R("BadRequestException", "deadline nao corresponde"))
                ELSE IF toLowerCase(recovered) # toLowerCase(participant)
                THEN Finish(p, R("BadRequestException", "signer diferente do participante"))
                ELSE IF IsExpired(recordDeadlineUnix, DateToUnix(now))
                THEN Suspend(p, "submit_write", write("EXPIRED"), Suspended("submitSignature", splitId))
                ELSE Suspend(p, "submit_write", write("VALID"), Suspended("submitSignature", splitId))

\* the awaited write of submitSignature: the single update to EXPIRED followed
\* by the throw, or the transaction of the two updates
SubmitWrite(p) ==
  /\ pc[p] = "submit_write"
  /\ LET l == local[p]
         R(status, msg) == SubmitRet(l.split, status, msg, l.sig)
     IN IF l.write = "EXPIRED"
        THEN IF ~WriteApplies(signatures[l.sig])
             THEN /\ Finish(p, R("PrismaError", "P2025 record not found"))
                  /\ UNCHANGED <<store, users, executor, now>>
             ELSE /\ signatures' = [signatures EXCEPT ![l.sig] = MarkExpired(signatures[l.sig])]
                  /\ Finish(p, R("BadRequestException", "Assinatura expirada"))
                  /\ UNCHANGED <<splits, participants, nextSplitId, nextSigId, users, executor, now>>
        ELSE IF ~WriteApplies(signatures[l.sig]) \/ ~HasParticipantRow(l.split, l.participant)
             THEN /\ Finish(p, R("PrismaError", "P2025 record not found"))
                  /\ UNCHANGED <<store, users, executor, now>>
             ELSE /\ signatures' = [signatures EXCEPT ![l.sig] = MarkValid(signatures[l.sig], l.signature)]
                  /\ participants' = [participants EXCEPT ![l.split] =
                       SetApprovedOffchainAt(participants[l.split], l.participant, l.at)]
                  /\ Finish(p, R("ok", "VALID"))
                  /\ UNCHANGED <<splits, nextSplitId, nextSigId, users, executor, now>>


(***************************************************************************)
(* settleSplit                                                             *)
(***************************************************************************)
\* a set of row ids as the sequence in store (id) order
RECURSIVE InIdOrder(_)
InIdOrder(ids) ==
  IF ids = {} THEN <<>>
  ELSE LET least == CHOOSE s \in ids : \A t \in ids : s <= t
       IN <<least>> \o InIdOrder(ids \ {least})

\* prepareItemsFromDatabase: one item per VALID row of the split
prepareItemsFromDatabase(splitId) ==
  LET valid == InIdOrder({s \in SplitSignatures(splitId) : signatures[s].status = "VALID"})
      ItemErr(s) ==
        IF signatures[s].signature = EmptySignature THEN "BadRequestException"
        ELSE IF FindLeg(splitId, signatures[s].participant) = 0 THEN "NotFoundException"
        ELSE "ok"
      bad == {i \in 1..Len(valid) : ItemErr(valid[i]) # "ok"}
  IN IF bad # {}
     THEN [err |-> ItemErr(valid[CHOOSE i \in bad : \A j \in bad : i <= j]), items |-> <<>>]
     ELSE [err |-> "ok",
           items |-> [i \in 1..Len(valid) |->
             [participant |-> signatures[valid[i]].participant,
              amount |-> participants[splitId][FindLeg(splitId, signatures[valid[i]].participant)].amount,
              deadline |-> DateToUnix(signatures[valid[i]].deadline),
              salt |-> signatures[valid[i]].salt,
              signature |-> signatures[valid[i]].signature,
              signatureRecordId |-> valid[i]]]]

\* the checks on a payload item without the comparison of the signature
PayloadItemErrWithoutSignatureCheck(splitId, item) ==
  LET participant == getAddress(item.participant)
      leg == FindLeg(splitId, participant)
      sigId == FindSignature(splitId, participant, item.salt)
  IN IF leg = 0 THEN "NotFoundException"
     ELSE IF participants[splitId][leg].amount # item.amount THEN "BadRequestException"
     ELSE IF sigId = 0 THEN "NotFoundException"
     ELSE IF signatures[sigId].status # "VALID" THEN "BadRequestException"
     ELSE IF signatures[sigId].signature = EmptySignature THEN "BadRequestException"
     ELSE IF DateToUnix(signatures[sigId].deadline) # item.deadline THEN "BadRequestException"
     ELSE "ok"

\* the checks prepareItemsFromPayload makes on one payload item
PayloadItemErr(splitId, item) ==
  LET participant == getAddress(item.participant)
      leg == FindLeg(splitId, participant)
      sigId == FindSignature(splitId, participant, item.salt)
  IN IF leg = 0 THEN "NotFoundException"
     ELSE IF participants[splitId][leg].amount # item.amount THEN "BadRequestException"
     ELSE IF sigId = 0 THEN "NotFoundException"
     ELSE IF signatures[sigId].status # "VALID" THEN "BadRequestException"
     ELSE IF signatures[sigId].signature = EmptySignature THEN "BadRequestException"
     ELSE IF DateToUnix(signatures[sigId].deadline) # item.deadline THEN "BadRequestException"
     ELSE IF signatures[sigId].signature # item.signature THEN "BadRequestException"
     ELSE "ok"

\* prepareItemsFromPayload: payload.map(...), which throws at the first bad item
prepareItemsFromPayload(splitId, payload) ==
  LET bad == {i \in 1..Len(payload) : PayloadItemErr(splitId, payload[i]) # "ok"}
  IN IF bad # {}
     THEN [err |-> PayloadItemErr(splitId, payload[CHOOSE i \in bad : \A j \in bad : i <= j]),
           items |-> <<>>]
     ELSE [err |-> "ok",
           items |-> [i \in 1..Len(payload) |->
             [participant |-> getAddress(payload[i].participant),
              amount |-> payload[i].amount,
              deadline |-> payload[i].deadline,
              salt |-> payload[i].salt,
              signature |-> payload[i].signature,
              signatureRecordId |->
                FindSignature(splitId, getAddress(payload[i].participant), payload[i].salt)]]]

\* the payload item that restates a stored row
ItemOfRow(s) ==
  [participant |-> signatures[s].participant, amount |-> signatures[s].amount,
   deadline |-> DateToUnix(signatures[s].deadline), salt |-> signatures[s].salt,
   signature |-> signatures[s].signature]

\* payload items a caller may send: stored rows restated, in either letter
\* case of the address, or with one field changed
PayloadItemInputs(splitId) ==
  LET rows == SplitSignatures(splitId)
      first == {s \in rows : \A t \in rows : s <= t}
  IN {ItemOfRow(s) : s \in rows} \cup
     UNION { { [ItemOfRow(s) EXCEPT !.participant = toLowerCase(@)],
               [ItemOfRow(s) EXCEPT !.amount = @ + 1],
               [ItemOfRow(s) EXCEPT !.deadline = @ + 1],
               [ItemOfRow(s) EXCEPT !.salt = "s0"],
               [ItemOfRow(s) EXCEPT !.participant = "0xUnrelated"],
               [ItemOfRow(s) EXCEPT !.signature = SignTypedData("0xUnrelated", @.message)] } :
             s \in first }

\* dto.items of settleSplit: absent (<<>>), or one or two items
SettlePayloads(splitId) ==
  {<<>>} \cup {<<a>> : a \in PayloadItemInputs(splitId)}
         \cup {<<ItemOfRow(s), ItemOfRow(t)>> :
                 s \in SplitSignatures(splitId), t \in SplitSignatures(splitId)}

\* the payloads of the concurrent specification: absent, or one stored row restated
RaceSettlePayloads(splitId) ==
  {<<>>} \cup {<<ItemOfRow(s)>> : s \in SplitSignatures(splitId)}

\* Signature.from(hex): the three components of a 65-byte signature
SignatureFrom(signature) ==
  [v |-> [part |-> "v", of |-> signature],
   r |-> [part |-> "r", of |-> signature],
   s |-> [part |-> "s", of |-> signature]]

\* arguments whose amounts run against the order of the items
SettleArgumentsAmountsReversed(splitIdValue, items) ==
  [splitId |-> splitIdValue,
   participants |-> [i \in 1..Len(items) |-> items[i].participant],
   amounts |-> [i \in 1..Len(items) |-> items[Len(items) + 1 - i].amount],
   deadlines |-> [i \in 1..Len(items) |-> items[i].deadline],
   salts |-> [i \in 1..Len(items) |-> items[i].salt],
   v |-> [i \in 1..Len(items) |-> SignatureFrom(items[i].signature).v],
   r |-> [i \in 1..Len(items) |-> SignatureFrom(items[i].signature).r],
   s |-> [i \in 1..Len(items) |-> SignatureFrom(items[i].signature).s]]

\* the eight arguments of contract.settleSplit: items.map(...) per field
SettleArguments(splitIdValue, items) ==
  [splitId |-> splitIdValue,
   participants |-> [i \in 1..Len(items) |-> items[i].participant],
   amounts |-> [i \in 1..Len(items) |-> items[i].amount],
   deadlines |-> [i \in 1..Len(items) |-> items[i].deadline],
   salts |-> [i \in 1..Len(items) |-> items[i].salt],
   v |-> [i \in 1..Len(items) |-> SignatureFrom(items[i].signature).v],
   r |-> [i \in 1..Len(items) |-> SignatureFrom(items[i].signature).r],
   s |-> [i \in 1..Len(items) |-> SignatureFrom(items[i].signature).s]]

\* a count check that only refuses more items than participants
CountMismatchOnlyWhenMore(items, legs) == Len(items) > Len(legs)

\* items.length !== split.participants.length
CountMismatch(items, legs) == Len(items) # Len(legs)

\* the call contract.settleSplit(splitIdValue, participants, amounts, ...)
SettleCall(splitId, splitIdValue, items) ==
  [op |-> "settleSplit", ev |-> "call", split |-> splitId,
   splitIdValue |-> splitIdValue, items |-> items,
   args |-> SettleArguments(splitIdValue, items)]

\* settleSplit up to its chain await: the read, the assembly of the items,
\* the count check and the call of contract.settleSplit
SettleSplit(p, splitId, payload) ==
  /\ Idle(p)
  /\ UNCHANGED <<store, users, executor, now>>
  /\ LET found == findSplitOrThrow(splitId)
         R(status, msg) == Ret("settleSplit", splitId, status, msg)
     IN IF found # "ok" THEN Finish(p, R(found, "findSplitOrThrow"))
        ELSE IF splits[splitId].settled THEN Finish(p, R("BadRequestException", "Split ja liquidado"))
        ELSE LET prepared == IF Len(payload) > 0 THEN prepareItemsFromPayload(splitId, payload)
                             ELSE prepareItemsFromDatabase(splitId)
                 splitIdValue == resolveSplitIdForSigning(splitId)
             IN IF prepared.err # "ok" THEN Finish(p, R(prepared.err, "item"))
                ELSE IF CountMismatch(prepared.items, participants[splitId])
                THEN Finish(p, R("BadRequestException", "Numero de assinaturas nao corresponde"))
                ELSE IF ~executor
                THEN Finish(p, R("InternalServerErrorException", "Executor nao configurado"))
                ELSE Suspend(p, "settle_tx",
                       [op |-> "settleSplit", split |-> splitId, splitIdValue |-> splitIdValue,
                        items |-> prepared.items],
                       SettleCall(splitId, splitIdValue, prepared.items))

\* await contract.settleSplit(...): the transaction is accepted, or the call fails
SettleTx(p, sent) ==
  /\ pc[p] = "settle_tx"
  /\ UNCHANGED <<store, users, executor, now>>
  /\ IF sent
     THEN Suspend(p, "settle_wait", local[p], Suspended("settleSplit", local[p].split))
     ELSE Finish(p, Ret("settleSplit", local[p].split, "BadRequestException", "Falha ao liquidar split on-chain"))

\* data: { settled: true }
MarkSettled(row) == [row EXCEPT !.settled = TRUE]

\* one splitParticipant.update per item: usedOnchainAt = now
SetUsedOnchainAt(rows, items, at) ==
  [i \in 1..Len(rows) |->
     IF \E k \in 1..Len(items) : items[k].participant = rows[i].participant
     THEN [rows[i] EXCEPT !.usedOnchainAt = at]
     ELSE rows[i]]

\* an update of the signature rows that leaves every status as it was
LeaveSignatureStatus(sigs, items) == sigs

\* one splitSignature.update per item: status USED_ONCHAIN
MarkUsedOnchain(sigs, items) ==
  [s \in SigIds |->
     IF \E k \in 1..Len(items) : items[k].signatureRecordId = s
     THEN [sigs[s] EXCEPT !.status = "USED_ONCHAIN"]
     ELSE sigs[s]]

\* whether every row the post-settlement transaction updates exists
SettleRowsExist(splitId, items) ==
  /\ splits[splitId].exists
  /\ \A k \in 1..Len(items) :
       /\ HasParticipantRow(splitId, items[k].participant)
       /\ signatures[items[k].signatureRecordId].exists

\* await tx.wait(): the receipt comes and the handler takes the time of the
\* post-settlement updates (const now = new Date()), or the wait fails
SettleReceipt(p, mined) ==
  /\ pc[p] = "settle_wait"
  /\ UNCHANGED <<store, users, executor, now>>
  /\ IF mined
     THEN Suspend(p, "settle_commit", [op |-> "settleSplit", split |-> local[p].split,
                     splitIdValue |-> local[p].splitIdValue, items |-> local[p].items, at |-> now],
                  Suspended("settleSplit", local[p].split))
     ELSE Finish(p, Ret("settleSplit", local[p].split, "BadRequestException", "Falha ao liquidar split on-chain"))

\* await prisma.$transaction([...]): the updates commit together, or the
\* transaction rolls back (a row to update is gone) and the catch block
\* rethrows its error as a chain failure
SettleCommit(p) ==
  /\ pc[p] = "settle_commit"
  /\ LET l == local[p]
     IN IF ~SettleRowsExist(l.split, l.items)
        THEN /\ Finish(p, Ret("settleSplit", l.split, "BadRequestException", "Falha ao liquidar split on-chain"))
             /\ UNCHANGED <<store, users, executor, now>>
        ELSE /\ splits' = [splits EXCEPT ![l.split] = MarkSettled(splits[l.split])]
             /\ participants' = [participants EXCEPT ![l.split] =
                  SetUsedOnchainAt(participants[l.split], l.items, l.at)]
             /\ signatures' = MarkUsedOnchain(signatures, l.items)
             /\ Finish(p, Ret("settleSplit", l.split, "ok", "txHash receipt"))
             /\ UNCHANGED <<nextSplitId, nextSigId, users, executor, now>>

(***************************************************************************)
(* The service, one request at a time (the sequential specification):      *)
(* every request runs to its answer before the next one arrives; time      *)
(* passes between and during requests.                                     *)
(***************************************************************************)
SeqSplitIds == {1}
SeqSigIds == {1, 2}

NextSeq ==
  \/ Tick
  \/ \E dto \in CreateSplitDtos : nextSplitId \in SeqSplitIds /\ CreateSplit(1, dto)
  \/ \E sent \in BOOLEAN : CreateTx(1, sent)
  \/ \E mined \in BOOLEAN, onchainId \in OnchainIds \cup {NULL} : CreateReceipt(1, mined, onchainId)
  \/ \E splitId \in SeqSplitIds, dto \in ApproveIntentDtos, salt \in SaltChoices :
       nextSigId \in SeqSigIds /\ GenerateApproveIntent(1, splitId, dto, salt)
  \/ GenerateInsert(1)
  \/ \E splitId \in SeqSplitIds :
       \E dto \in SubmitSignatureDtos(splitId) : SubmitSignature(1, splitId, dto)
  \/ SubmitWrite(1)
  \/ \E splitId \in SeqSplitIds :
       \E payload \in SettlePayloads(splitId) : SettleSplit(1, splitId, payload)
  \/ \E sent \in BOOLEAN : SettleTx(1, sent)
  \/ \E mined \in BOOLEAN : SettleReceipt(1, mined)
  \/ SettleCommit(1)

SpecSeq == Init /\ [][NextSeq]_vars

(***************************************************************************)
(* The service under concurrent requests (the default specification):      *)
(* requests on one single-leg split arrive and suspended handlers resume   *)
(* in any order, within one second of the clock.                           *)
(***************************************************************************)
RaceSplitIds == {1}

Next ==
  \/ \E p \in Procs, dto \in RaceCreateSplitDtos :
       nextSplitId \in RaceSplitIds /\ CreateSplit(p, dto)
  \/ \E p \in Procs, sent \in BOOLEAN : CreateTx(p, sent)
  \/ \E p \in Procs, mined \in BOOLEAN, onchainId \in OnchainIds \cup {NULL} :
       CreateReceipt(p, mined, onchainId)
  \/ \E p \in Procs, splitId \in RaceSplitIds, dto \in RaceApproveIntentDtos, salt \in SaltChoices :
       GenerateApproveIntent(p, splitId, dto, salt)
  \/ \E p \in Procs : GenerateInsert(p)
  \/ \E p \in Procs, splitId \in RaceSplitIds :
       \E dto \in RaceSubmitSignatureDtos(splitId) : SubmitSignature(p, splitId, dto)
  \/ \E p \in Procs : SubmitWrite(p)
  \/ \E p \in Procs, splitId \in RaceSplitIds :
       \E payload \in RaceSettlePayloads(splitId) : SettleSplit(p, splitId, payload)
  \/ \E p \in Procs, sent \in BOOLEAN : SettleTx(p, sent)
  \/ \E p \in Procs, mined \in BOOLEAN : SettleReceipt(p, mined)
  \/ \E p \in Procs : SettleCommit(p)

Spec == Init /\ [][Next]_vars

(***************************************************************************)
(* Properties of settlement (checked under SpecSeq unless said otherwise)  *)
(***************************************************************************)
\* the VALID signature rows of a participant of a split
ValidRowsOf(splitId, participant) ==
  {s \in SplitSignatures(splitId) :
     signatures[s].participant = participant /\ signatures[s].status = "VALID"}

\* how many of the items name the participant
ItemsOf(items, participant) ==
  Cardinality({k \in 1..Len(items) : items[k].participant = participant})

\* C1: settleSplit calls the contract's settleSplit only when every
\* participant (leg) of the split has a signature row with status VALID and
\* the assembled items contain each participant of the split exactly once,
\* whether the items come from the store or from the request.
C1_SettleCallsOnlyWhenEveryLegApproved ==
  last.ev = "call" =>
    \A i \in 1..Len(participants[last.split]) :
      /\ ValidRowsOf(last.split, participants[last.split][i].participant) # {}
      /\ ItemsOf(last.items, participants[last.split][i].participant) = 1

\* C2: each (split, participant) pair has at most one signature row whose
\* status is VALID or USED_ONCHAIN, in every state reached by
\* generateApproveIntent, submitSignature and settleSplit calls.
C2_AtMostOneApprovedRowPerParticipant ==
  \A id \in SplitIds : \A a \in ChecksumAddrs :
    Cardinality({s \in SplitSignatures(id) :
                   /\ signatures[s].participant = a
                   /\ signatures[s].status \in {"VALID", "USED_ONCHAIN"}}) <= 1

(***************************************************************************)
(* Properties under concurrent requests (checked under Spec)               *)
(***************************************************************************)
\* the status changes of a signature row the service is meant to make
AllowedTransitions ==
  { <<"PENDING", "VALID">>, <<"PENDING", "EXPIRED">>, <<"PENDING", "REJECTED">>,
    <<"VALID", "USED_ONCHAIN">> }

\* C3: under any interleaving of submitSignature and settleSplit at their
\* database and chain suspension points, every change of a signature row's
\* status is PENDING->VALID, PENDING->EXPIRED, PENDING->REJECTED or
\* VALID->USED_ONCHAIN: no row leaves EXPIRED, REJECTED or USED_ONCHAIN and
\* no VALID row becomes PENDING or EXPIRED.
C3_StatusFollowsAllowedGraph ==
  [][\A s \in SigIds :
       (/\ signatures[s].exists
        /\ signatures'[s].exists
        /\ signatures'[s].status # signatures[s].status)
       => <<signatures[s].status, signatures'[s].status>> \in AllowedTransitions]_vars

\* whether the three post-settlement updates are in place, in the tables
\* sp, pa, si, for the split and every item
SettlementApplied(sp, pa, si, splitId, items) ==
  /\ sp[splitId].exists
  /\ sp[splitId].settled
  /\ \A k \in 1..Len(items) :
       /\ \E i \in 1..Len(pa[splitId]) :
            /\ pa[splitId][i].participant = items[k].participant
            /\ pa[splitId][i].usedOnchainAt # NULL
       /\ si[items[k].signatureRecordId].exists
       /\ si[items[k].signatureRecordId].status = "USED_ONCHAIN"

\* the answer of a settleSplit whose chain call failed
SettleChainFailed(splitId) ==
  Ret("settleSplit", splitId, "BadRequestException", "Falha ao liquidar split on-chain")

\* C4: settlement atomicity.  A settleSplit whose chain call fails (at the
\* submission or at the receipt wait) applies none of settled=true,
\* usedOnchainAt and USED_ONCHAIN and answers with the chain failure; one
\* whose chain call succeeded (it holds the receipt) applies all three for
\* the split and every assembled item and answers with success.
C4_SettlementAtomicity ==
  [][\A p \in Procs :
       /\ (pc[p] \in {"settle_tx", "settle_wait"} /\ pc'[p] = "idle")
          => (UNCHANGED store /\ last' = SettleChainFailed(local[p].split))
       /\ (pc[p] = "settle_commit" /\ pc'[p] = "idle")
          => /\ SettlementApplied(splits', participants', signatures',
                                  local[p].split, local[p].items)
             /\ last' = Ret("settleSplit", local[p].split, "ok", "txHash receipt")]_vars

\* C6: once a split has settled=true, the only change made to a signature
\* row of it is setting status USED_ONCHAIN (the removal of the row together
\* with its split aside); a submitSignature that read the split before the
\* settlement committed writes neither VALID, EXPIRED nor a signature blob
\* to a row of the split afterwards.
C6_SettledSignaturesFrozen ==
  [][\A s \in SigIds :
       (/\ signatures[s].exists
        /\ splits[signatures[s].splitId].exists
        /\ splits[signatures[s].splitId].settled)
       => \/ signatures'[s] = signatures[s]
          \/ signatures'[s] = [signatures[s] EXCEPT !.status = "USED_ONCHAIN"]
          \/ signatures'[s] = NoRow]_vars

\* C7: the splitId settleSplit passes to the contract (splitIdOnchain if
\* present, else the local id) is the splitId over which every signature it
\* passes was verified by submitSignature, also when a
\* createSplit(createOnchain=true) populates splitIdOnchain in between.
C7_SettleUsesTheSplitIdSigned ==
  last.ev = "call" =>
    \A k \in 1..Len(last.items) :
      last.items[k].signature.message.splitId = last.splitIdValue

\* C5: split.settled is monotonic: once a Split row has settled=true, no
\* step of createSplit, generateApproveIntent, submitSignature or settleSplit
\* sets it back to false.
C5_SettledIsMonotonic ==
  [][\A id \in SplitIds :
       (splits[id].exists /\ splits[id].settled /\ splits'[id].exists)
       => splits'[id].settled]_vars

\* a createSplit that wrote splitIdOnchain to a split already settled
C5_CreateReceiptAfterSettlement ==
  /\ splits[1].exists
  /\ splits[1].settled
  /\ splits[1].splitIdOnchain # NULL
  /\ last = Ret("createSplit", 1, "ok", "txHash receipt")

\* whether some stored row has the key (splitId, participant, salt) of row
Collides(row) ==
  \E s \in SigIds :
    /\ signatures[s].exists
    /\ signatures[s].splitId = row.splitId
    /\ signatures[s].participant = row.participant
    /\ signatures[s].salt = row.salt

\* C9: salt uniqueness: no two SplitSignature rows share (splitId,
\* participant, salt), also when two generateApproveIntent calls for the
\* same participant run concurrently; a call whose salt collides with a
\* stored row inserts nothing.
C9_SaltUniqueness ==
  /\ [](\A s, t \in SigIds :
          (s # t /\ signatures[s].exists /\ signatures[t].exists)
          => <<signatures[s].splitId, signatures[s].participant, signatures[s].salt>>
             # <<signatures[t].splitId, signatures[t].participant, signatures[t].salt>>)
  /\ [][\A p \in Procs :
          (pc[p] = "gen_insert" /\ Collides(local[p].row) /\ pc'[p] = "idle")
          => (signatures' = signatures /\ nextSigId' = nextSigId)]_vars

\* a generateApproveIntent refused by the unique index, its rival's row stored
C9_CollidingInsertRefused ==
  /\ last = Ret("generateApproveIntent", 1, "PrismaError", "P2002 unique")
  /\ Cardinality(SplitSignatures(1)) = 1

(***************************************************************************)
(* Properties of the sequential service (checked under SpecSeq)            *)
(***************************************************************************)
\* C8: conservation: for every Split row totalAmount is the sum of the
\* amounts of its participant rows and is greater than 0, and no step after
\* the creation changes totalAmount or a leg's amount.
C8_Conservation ==
  /\ [](\A id \in SplitIds :
          splits[id].exists =>
            /\ splits[id].totalAmount = SumAmounts(participants[id])
            /\ splits[id].totalAmount > 0)
  /\ [][\A id \in SplitIds :
          (splits[id].exists /\ splits'[id].exists) =>
            /\ splits'[id].totalAmount = splits[id].totalAmount
            /\ Len(participants'[id]) = Len(participants[id])
            /\ \A i \in 1..Len(participants[id]) :
                 participants'[id][i].amount = participants[id][i].amount]_vars

\* a split of two legs, approved by both and settled
C8_TwoLegSplitSettled ==
  /\ splits[1].exists
  /\ splits[1].settled
  /\ Len(participants[1]) = 2
  /\ \A i \in 1..2 : participants[1][i].usedOnchainAt # NULL

\* the requests that submit again the signature stored in row s: in either
\* letter case of the address, without or with a deadline string
Resubmissions(s) ==
  [participant : {signatures[s].participant, toLowerCase(signatures[s].participant)},
   amount : {signatures[s].amount},
   salt : {signatures[s].salt},
   deadline : {DeadlineAbsent, DeadlineDigits(DateToUnix(signatures[s].deadline)),
               DeadlineDigits(DateToUnix(signatures[s].deadline) + 1)},
   signature : {signatures[s].signature}]

\* the outcome C10 asks of submitting again the signature stored in VALID
\* row s: the call answers success at once and the store is as it was, with
\* exactly one row for the salt, in status VALID
AnsweredIdempotently(s) ==
  /\ last' = SubmitRet(signatures[s].splitId, "ok", "already VALID", s)
  /\ pc'[1] = "idle"
  /\ UNCHANGED store
  /\ signatures'[s].status = "VALID"
  /\ Cardinality({t \in SigIds :
       /\ signatures'[t].exists
       /\ signatures'[t].splitId = signatures[s].splitId
       /\ signatures'[t].participant = signatures[s].participant
       /\ signatures'[t].salt = signatures[s].salt}) = 1

\* C10: idempotent submit: once submitSignature has succeeded for (split,
\* participant, salt), so that the row is VALID, submitting the same valid
\* signature again on the still unsettled split returns success, performs
\* no write and leaves exactly one row for that salt, with status VALID.
\* (SubmitSignature fixes every primed variable, so the step it can take is
\* the only one.)
C10_IdempotentSubmit ==
  \A s \in SigIds :
    (/\ pc[1] = "idle"
     /\ signatures[s].exists
     /\ signatures[s].status = "VALID"
     /\ splits[signatures[s].splitId].exists
     /\ ~splits[signatures[s].splitId].settled)
    => \A dto \in Resubmissions(s) :
         ENABLED (/\ SubmitSignature(1, signatures[s].splitId, dto)
                  /\ AnsweredIdempotently(s))

\* a second submission answered at once, a second after the first one
C10_SecondSubmissionAnswered ==
  /\ last = SubmitRet(1, "ok", "already VALID", 1)
  /\ signatures[1].status = "VALID"
  /\ participants[1][1].approvedOffchainAt # NULL
  /\ participants[1][1].approvedOffchainAt < now

(***************************************************************************)
(* The service under concurrent requests while time passes (SpecExpiry):   *)
(* intents on one single-leg split that has a deadline are submitted by    *)
(* handlers that resume in any order, and the clock may pass the deadline  *)
(* between any two steps.                                                  *)
(***************************************************************************)
ExpiryCreateSplitDtos ==
  [payer : {"0xPayer"}, token : {"0xToken"}, legs : {<<Leg("0xa", 1)>>},
   deadline : {DeadlineIso(1 * MsPerSecond)}, createOnchain : {FALSE}]

NextExpiry ==
  \/ Tick
  \/ \E p \in Procs, dto \in ExpiryCreateSplitDtos :
       nextSplitId \in RaceSplitIds /\ CreateSplit(p, dto)
  \/ \E p \in Procs, splitId \in RaceSplitIds, dto \in RaceApproveIntentDtos, salt \in SaltChoices :
       GenerateApproveIntent(p, splitId, dto, salt)
  \/ \E p \in Procs : GenerateInsert(p)
  \/ \E p \in Procs, splitId \in RaceSplitIds :
       \E dto \in RaceSubmitSignatureDtos(splitId) : SubmitSignature(p, splitId, dto)
  \/ \E p \in Procs : SubmitWrite(p)

SpecExpiry == Init /\ [][NextExpiry]_vars

\* C11: the update of a signature row to VALID and the update of the
\* participant's approvedOffchainAt commit together: in every reachable
\* state a participant's approvedOffchainAt is non-null if and only if one
\* of the participant's signature rows in the split is VALID or USED_ONCHAIN.
C11_ApprovedIffValidRow ==
  \A id \in SplitIds : \A i \in 1..Len(participants[id]) :
    (participants[id][i].approvedOffchainAt # NULL)
    <=> \E s \in SplitSignatures(id) :
          /\ signatures[s].participant = participants[id][i].participant
          /\ signatures[s].status \in {"VALID", "USED_ONCHAIN"}

(***************************************************************************)
(* Failing submissions (checked under SpecSeq)                             *)
(***************************************************************************)
\* whether the deadline stored in signature row s (0 means the row never
\* was found) is set and earlier than the current second
DeadlinePassed(s) ==
  /\ s # 0
  /\ signatures[s].exists
  /\ signatures[s].deadline # NULL
  /\ signatures[s].deadline \div MsPerSecond < now \div MsPerSecond

C13_ExpiredSubmission ==
  /\ [][(pc[1] = "idle" /\ pc'[1] = "submit_write")
        => (local'[1].write = "EXPIRED" <=> DeadlinePassed(local'[1].sig))]_vars
  /\ [][(pc[1] = "submit_write" /\ local[1].write = "EXPIRED" /\ pc'[1] = "idle")
        => /\ signatures' = [signatures EXCEPT ![local[1].sig] =
                [@ EXCEPT !.status = "EXPIRED",
                          !.reason = "Assinatura expirada antes da validacao"]]
           /\ UNCHANGED <<splits, participants, nextSplitId, nextSigId>>
           /\ last' = SubmitRet(local[1].split, "BadRequestException",
                                "Assinatura expirada", local[1].sig)]_vars

\* a valid signature submitted a second after its deadline: the row EXPIRED,
\* the participant not approved
C13_RowExpired ==
  /\ last = SubmitRet(1, "BadRequestException", "Assinatura expirada", 1)
  /\ signatures[1].status = "EXPIRED"
  /\ signatures[1].deadline # NULL
  /\ participants[1][1].approvedOffchainAt = NULL

(***************************************************************************)
(* Approval deadlines (checked under SpecSeq)                              *)
(***************************************************************************)
\* C14: for a split that has its own deadline D, generateApproveIntent
\* never records a signature row whose expiry is later than D, where no
\* expiry (deadline 0 / null) counts as later than any D.
C14_RowsExpireNoLaterThanSplit ==
  \A id \in SplitIds : \A s \in SplitSignatures(id) :
    splits[id].deadline # NULL
    => /\ signatures[s].deadline # NULL
       /\ signatures[s].deadline \div MsPerSecond
            <= splits[id].deadline \div MsPerSecond

(***************************************************************************)
(* Creation next to approval intents (SpecCreate): splits are created,     *)
(* on-chain or not, while approval intents are generated on any of them,   *)
(* handlers interleaving at their awaits.                                  *)
(***************************************************************************)
NextCreate ==
  \/ \E p \in Procs, dto \in RaceCreateSplitDtos : CreateSplit(p, dto)
  \/ \E p \in Procs, sent \in BOOLEAN : CreateTx(p, sent)
  \/ \E p \in Procs, mined \in BOOLEAN, onchainId \in OnchainIds \cup {NULL} :
       CreateReceipt(p, mined, onchainId)
  \/ \E p \in Procs, splitId \in SplitIds, dto \in RaceApproveIntentDtos, salt \in SaltChoices :
       GenerateApproveIntent(p, splitId, dto, salt)
  \/ \E p \in Procs : GenerateInsert(p)

SpecCreate == Init /\ [][NextCreate]_vars

\* the rows of split id: its Split row, its participants, its signatures
RowsOf(id) ==
  <<splits[id], participants[id],
    [s \in SigIds |-> IF signatures[s].exists /\ signatures[s].splitId = id
                      THEN signatures[s] ELSE NoRow]>>

\* C15: if the on-chain call of createSplit(createOnchain=true) fails, the
\* call ends with a chain_failed error ("Falha ao criar split on-chain") and
\* the store afterwards holds no Split row and no participant or signature
\* rows of the split this call inserted; no other split's rows are touched.
C15_FailedCreateLeavesNoRows ==
  [][\A p \in Procs :
       (/\ pc[p] \in {"create_tx", "create_wait"}
        /\ pc'[p] = "idle"
        /\ last'.status # "ok")
       => /\ last' = Ret("createSplit", local[p].split, "BadRequestException",
                         "Falha ao criar split on-chain")
          /\ ~splits'[local[p].split].exists
          /\ participants'[local[p].split] = <<>>
          /\ \A s \in SigIds :
               ~(signatures'[s].exists /\ signatures'[s].splitId = local[p].split)
          /\ \A o \in SplitIds \ {local[p].split} : RowsOf(o)' = RowsOf(o)]_vars

\* a failed on-chain creation answered after an approval intent had been
\* recorded on the split, next to another split that is kept
C15_FailedCreateAfterIntent ==
  /\ last = Ret("createSplit", 2, "BadRequestException", "Falha ao criar split on-chain")
  /\ splits[1].exists
  /\ ~splits[2].exists
  /\ nextSigId > 1
  /\ \A s \in SigIds : ~signatures[s].exists

(***************************************************************************)
(* Without an executor key (checked under SpecSeq)                         *)
(***************************************************************************)
\* C16: when no executor key is configured, every write operation that
\* needs the chain (createSplit with createOnchain=true, settleSplit) fails
\* with the configuration error, makes no chain call, and leaves the
\* persisted state exactly as it was before the call, so no Split row
\* created by the failing createSplit remains.
C16_MisconfiguredChangesNothing ==
  [][(/\ last'.ev = "return"
      /\ last'.status = "InternalServerErrorException")
     => UNCHANGED store]_vars

\* settleSplit refused for want of an executor key
C16_SettleRefusedWithoutExecutor ==
  /\ ~executor
  /\ last = Ret("settleSplit", 1, "InternalServerErrorException", "Executor nao configurado")

(***************************************************************************)
(* Off-chain creation (checked under SpecSeq)                              *)
(***************************************************************************)
\* what an off-chain createSplit(dto) leaves behind when it takes id: one
\* unsettled Split row without on-chain id, one participant row per leg in
\* the legs' order, nothing else changed, no handler waiting on the chain,
\* and the answer { id, txHash: null }
CreatedOffchain(dto, id) ==
  /\ splits' = [splits EXCEPT ![id] = splits'[id]]
  /\ splits'[id].exists
  /\ ~splits'[id].settled
  /\ splits'[id].splitIdOnchain = NULL
  /\ participants' = [participants EXCEPT ![id] = participants'[id]]
  /\ Len(participants'[id]) = Len(dto.legs)
  /\ \A i \in 1..Len(dto.legs) :
       /\ toLowerCase(participants'[id][i].participant) = toLowerCase(dto.legs[i].participant)
       /\ participants'[id][i].amount = dto.legs[i].amount
  /\ signatures' = signatures
  /\ pc' = pc
  /\ last' = Ret("createSplit", id, "ok", "txHash null")

\* C17: createSplit with createOnchain false never calls the contract (it
\* succeeds even with no executor key), inserts one Split row with
\* settled=false and splitIdOnchain=null plus exactly one participant row
\* per leg, and returns the new id with txHash null.
C17_OffchainCreate ==
  \A dto \in CreateSplitDtos :
    (/\ ~dto.createOnchain
     /\ pc[1] = "idle"
     /\ nextSplitId \in SeqSplitIds
     /\ ~splits[nextSplitId].exists
     /\ CreateSplitCheck(NormalizeLegs(dto.legs)) = "ok")
    => ENABLED (CreateSplit(1, dto) /\ CreatedOffchain(dto, nextSplitId))

\* a two-leg split created off-chain by a service without executor key
C17_TwoLegsWithoutExecutor ==
  /\ ~executor
  /\ last = Ret("createSplit", 1, "ok", "txHash null")
  /\ Len(participants[1]) = 2
  /\ splits[1].exists

(***************************************************************************)
(* Requests on a settled split (checked under SpecSeq)                     *)
(***************************************************************************)
\* C18: generateApproveIntent, submitSignature and settleSplit on a split
\* that is already settled fail with the conflict error kind
\* (ConflictException, not BadRequestException) and change no row.
C18_SettledSplitIsAConflict ==
  [][(/\ pc[1] = "idle"
      /\ pc'[1] = "idle"
      /\ now' = now
      /\ last'.op \in {"generateApproveIntent", "submitSignature", "settleSplit"}
      /\ splits[last'.split].exists
      /\ splits[last'.split].settled)
     => /\ last'.status = "ConflictException"
        /\ UNCHANGED store]_vars

\* settleSplit refused on a settled split
C18_SettleRefusedOnSettledSplit ==
  /\ splits[1].exists
  /\ splits[1].settled
  /\ last.op = "settleSplit"
  /\ last.ev = "return"
  /\ last.status # "ok"

(***************************************************************************)
(* Splits of another deployment (SpecForeign): the store already holds     *)
(* split 1, written by this deployment or by one configured for another    *)
(* chain or coordinator; requests on it, and creations of further splits, *)
(* arrive one at a time.                                                   *)
(***************************************************************************)
\* chain ids a stored row may carry: the configured one and another
StoredChainIds == {Config.chainId, Config.chainId + 1}

\* coordinator addresses a stored row may carry: the configured one, the
\* same address in lower case, and another contract
StoredContracts == {Config.contractAddress, toLowerCase(Config.contractAddress), "0xOther"}

\* getSplit: findSplitOrThrow, then the serialized split
GetSplit(p, splitId) ==
  /\ Idle(p)
  /\ LET found == findSplitOrThrow(splitId)
     IN Finish(p, Ret("getSplit", splitId, found,
                      IF found = "ok" THEN "serializeSplit" ELSE "findSplitOrThrow"))
  /\ UNCHANGED <<store, users, executor, now>>

InitForeign ==
  /\ \E chainId \in StoredChainIds, contract \in StoredContracts :
       splits = [id \in SplitIds |->
         IF id = 1
         THEN [NewSplitRow([payer |-> "0xPayer", token |-> "0xToken",
                            deadline |-> DeadlineAbsent], <<Leg("0xA", 1)>>)
                 EXCEPT !.chainId = chainId, !.contract = contract]
         ELSE NoRow]
  /\ participants = [id \in SplitIds |->
       IF id = 1 THEN NewParticipantRows(<<Leg("0xA", 1)>>) ELSE <<>>]
  /\ signatures = [id \in SigIds |-> NoRow]
  /\ nextSplitId = 2
  /\ nextSigId = 1
  /\ users = <<>>
  /\ executor = TRUE
  /\ now = 1 * MsPerSecond
  /\ pc = [p \in Procs |-> "idle"]
  /\ local = [p \in Procs |-> NoLocal]
  /\ last = [op |-> "none", ev |-> "none"]

NextForeign ==
  \/ \E dto \in RaceCreateSplitDtos : CreateSplit(1, dto)
  \/ \E sent \in BOOLEAN : CreateTx(1, sent)
  \/ \E mined \in BOOLEAN, onchainId \in OnchainIds \cup {NULL} : CreateReceipt(1, mined, onchainId)
  \/ GetSplit(1, 1)
  \/ \E dto \in RaceApproveIntentDtos, salt \in SaltChoices : GenerateApproveIntent(1, 1, dto, salt)
  \/ GenerateInsert(1)
  \/ \E dto \in RaceSubmitSignatureDtos(1) \cup {StraySubmitDto} : SubmitSignature(1, 1, dto)
  \/ SubmitWrite(1)
  \/ \E payload \in RaceSettlePayloads(1) : SettleSplit(1, 1, payload)
  \/ \E sent \in BOOLEAN : SettleTx(1, sent)
  \/ \E mined \in BOOLEAN : SettleReceipt(1, mined)
  \/ SettleCommit(1)

SpecForeign == InitForeign /\ [][NextForeign]_vars

\* split id is stored under another chain id or another coordinator
\* (addresses compared without regard to case)
Foreign(id) ==
  /\ splits[id].exists
  /\ \/ splits[id].chainId # Config.chainId
     \/ toLowerCase(splits[id].contract) # toLowerCase(Config.contractAddress)

\* C19: no operation changes the chainId or contract of an existing Split
\* row, and getSplit, generateApproveIntent, submitSignature and settleSplit
\* all fail, without any write or chain call, on a split whose chainId or
\* contract (compared case-insensitively) differs from the service's
\* configured chain and coordinator address.
C19_ForeignSplitsRefused ==
  /\ [][\A id \in SplitIds :
          (splits[id].exists /\ splits'[id].exists)
          => /\ splits'[id].chainId = splits[id].chainId
             /\ splits'[id].contract = splits[id].contract]_vars
  /\ [][(/\ Foreign(1)
          /\ pc[1] = "idle"
          /\ last'.op \in {"getSplit", "generateApproveIntent", "submitSignature", "settleSplit"})
        => /\ last'.ev = "return"
           /\ last'.status = "BadRequestException"
           /\ pc' = pc
           /\ UNCHANGED store]_vars
  /\ []((Foreign(1) /\ pc[1] = "idle")
        => /\ ENABLED GetSplit(1, 1)
           /\ ENABLED (\E dto \in RaceApproveIntentDtos, salt \in SaltChoices :
                         GenerateApproveIntent(1, 1, dto, salt))
           /\ ENABLED SubmitSignature(1, 1, StraySubmitDto)
           /\ ENABLED SettleSplit(1, 1, <<>>))

\* settleSplit refused on a split stored under the configured chain id but
\* another coordinator
C19_SettleRefusedOnOtherCoordinator ==
  /\ Foreign(1)
  /\ splits[1].chainId = Config.chainId
  /\ last.op = "settleSplit"
  /\ last.status = "BadRequestException"

(***************************************************************************)
(* Concurrent submissions (checked under Spec)                             *)
(***************************************************************************)
\* C20: of two concurrent submitSignature calls carrying valid signatures
\* for the same (splitId, participant, salt) on a PENDING, unexpired row,
\* both return success, however their reads and writes interleave: each
\* write that finds the row PENDING or already VALID answers success and
\* leaves that one row VALID, holding the signature this call submitted,
\* with the participant's approvedOffchainAt set and no row added or removed.
C20_ConcurrentSubmitsBothSucceed ==
  [][\A p \in Procs :
       (/\ pc[p] = "submit_write"
        /\ pc'[p] = "idle"
        /\ local[p].write = "VALID"
        /\ signatures[local[p].sig].exists
        /\ signatures[local[p].sig].status \in {"PENDING", "VALID"})
       => /\ last' = SubmitRet(local[p].split, "ok", "VALID", local[p].sig)
          /\ signatures' = [signatures EXCEPT ![local[p].sig] =
               [@ EXCEPT !.status = "VALID", !.signature = local[p].signature]]
          /\ \A i \in 1..Len(participants'[local[p].split]) :
               participants'[local[p].split][i].participant = local[p].participant
               => participants'[local[p].split][i].approvedOffchainAt # NULL
          /\ Cardinality({s \in SigIds :
                            /\ signatures'[s].exists
                            /\ signatures'[s].splitId = local[p].split
                            /\ signatures'[s].salt = signatures[local[p].sig].salt}) = 1]_vars

\* the race half run: the first call has written VALID and answered
\* success, the second, which read the row while PENDING, is about to write
C20_SecondWriterPending ==
  /\ pc[2] = "submit_write"
  /\ local[2].write = "VALID"
  /\ signatures[local[2].sig].exists
  /\ signatures[local[2].sig].status = "VALID"
  /\ last = SubmitRet(1, "ok", "VALID", local[2].sig)

(***************************************************************************)
(* Settlement races (SpecSettle): one single-leg split is created          *)
(* off-chain, approved and settled by requests that interleave at their    *)
(* awaits; no split is ever deleted.                                       *)
(***************************************************************************)
OffchainCreateSplitDtos == {dto \in RaceCreateSplitDtos : ~dto.createOnchain}

NextSettle ==
  \/ \E p \in Procs, dto \in OffchainCreateSplitDtos :
       nextSplitId \in RaceSplitIds /\ CreateSplit(p, dto)
  \/ \E p \in Procs, splitId \in RaceSplitIds, dto \in RaceApproveIntentDtos, salt \in SaltChoices :
       GenerateApproveIntent(p, splitId, dto, salt)
  \/ \E p \in Procs : GenerateInsert(p)
  \/ \E p \in Procs, splitId \in RaceSplitIds :
       \E dto \in RaceSubmitSignatureDtos(splitId) : SubmitSignature(p, splitId, dto)
  \/ \E p \in Procs : SubmitWrite(p)
  \/ \E p \in Procs, splitId \in RaceSplitIds :
       \E payload \in RaceSettlePayloads(splitId) : SettleSplit(p, splitId, payload)
  \/ \E p \in Procs, sent \in BOOLEAN : SettleTx(p, sent)
  \/ \E p \in Procs, mined \in BOOLEAN : SettleReceipt(p, mined)
  \/ \E p \in Procs : SettleCommit(p)

SpecSettle == Init /\ [][NextSettle]_vars

\* the pcs of a settleSplit call between its chain call and its answer
SettlePcs == {"settle_tx", "settle_wait", "settle_commit"}

\* C21: for any interleaving of two concurrent settleSplit calls on the same
\* unsettled split: a call whose chain call succeeded leaves, when it
\* finishes, the split settled with every assembled participant's
\* usedOnchainAt set and every assembled signature USED_ONCHAIN, whether it
\* finishes first or second; a call whose chain call failed changes nothing,
\* so that the state is unchanged if both failed.
C21_RacingSettlesCommitThePostState ==
  [][\A p \in Procs :
       (pc[p] \in SettlePcs /\ pc'[p] = "idle")
       => IF pc[p] = "settle_commit"
          THEN /\ splits'[local[p].split].exists
               /\ splits'[local[p].split].settled
               /\ \A k \in 1..Len(local[p].items) :
                    /\ \E i \in 1..Len(participants'[local[p].split]) :
                         /\ participants'[local[p].split][i].participant
                              = local[p].items[k].participant
                         /\ participants'[local[p].split][i].usedOnchainAt # NULL
                    /\ signatures'[local[p].items[k].signatureRecordId].exists
                    /\ signatures'[local[p].items[k].signatureRecordId].status = "USED_ONCHAIN"
          ELSE UNCHANGED store]_vars

\* the race half run: one settleSplit has committed and answered, the other,
\* which read the split while unsettled, holds its receipt and is about to commit
C21_LoserAboutToCommit ==
  /\ pc[2] = "settle_commit"
  /\ splits[1].settled
  /\ last = Ret("settleSplit", 1, "ok", "txHash receipt")

\* the settleSplit calls on split id whose transaction the coordinator's
\* node has accepted (contract.settleSplit has returned a transaction)
SubmittedSettles(id) ==
  {p \in Procs : pc[p] \in {"settle_wait", "settle_commit"} /\ local[p].split = id}

\* C22: double-submission is avoided: for one split, across any
\* interleaving of concurrent settleSplit calls, at most one settle
\* transaction is submitted to the coordinator contract.
C22_AtMostOneSettleSubmitted ==
  \A id \in SplitIds : Cardinality(SubmittedSettles(id)) <= 1

(***************************************************************************)
(* What settleSplit sends (checked under SpecSeq)                          *)
(***************************************************************************)
\* item restates a stored VALID signature row of a leg of split id:
\* participant (whatever the letter case), leg amount, salt, deadline in
\* Unix seconds (0 for none) and signature
RestatesValidRow(id, item) ==
  /\ \E i \in 1..Len(participants[id]) :
       /\ toLowerCase(participants[id][i].participant) = toLowerCase(item.participant)
       /\ participants[id][i].amount = item.amount
  /\ \E s \in SigIds :
       /\ signatures[s].exists
       /\ signatures[s].splitId = id
       /\ toLowerCase(signatures[s].participant) = toLowerCase(item.participant)
       /\ signatures[s].status = "VALID"
       /\ signatures[s].salt = item.salt
       /\ item.deadline = (IF signatures[s].deadline = NULL THEN 0
                           ELSE signatures[s].deadline \div MsPerSecond)
       /\ signatures[s].signature = item.signature

\* C23: an explicit items list cannot change what is sent on-chain: every
\* item of a contract call restates a leg and a stored VALID signature row
\* (participant, leg amount, salt, deadline in Unix seconds, signature), and
\* a payload with an item that diverges fails with invalid_input
\* (BadRequestException) or not_found (NotFoundException) before any chain
\* call and without any write.
C23_PayloadCannotChangeWhatIsSent ==
  /\ []((last.ev = "call" /\ last.op = "settleSplit")
        => \A k \in 1..Len(last.items) : RestatesValidRow(last.split, last.items[k]))
  /\ [](\A payload \in SettlePayloads(1) :
          LET prepared == prepareItemsFromPayload(1, payload)
          IN IF \A k \in 1..Len(payload) : RestatesValidRow(1, payload[k])
             THEN prepared.err = "ok"
             ELSE prepared.err \in {"BadRequestException", "NotFoundException"})
  /\ [][(/\ pc[1] = "idle"
         /\ last'.op = "settleSplit"
         /\ last'.ev = "return")
        => (pc' = pc /\ UNCHANGED store)]_vars

\* a contract call assembled from a payload: the one leg has two VALID
\* rows, of which the payload names one
C23_CallFromPayload ==
  /\ last.ev = "call"
  /\ Len(last.items) = 1
  /\ Cardinality({s \in SplitSignatures(1) : signatures[s].status = "VALID"}) = 2

(***************************************************************************)
(* The settled state (checked under SpecSeq)                               *)
(***************************************************************************)
\* C24: in every reachable state where a split has settled=true, every
\* participant of that split has usedOnchainAt set and has a signature row
\* with status USED_ONCHAIN; conversely a participant has usedOnchainAt set,
\* or a signature row is USED_ONCHAIN, only if its split is settled.
C24_SettledStateIsComplete ==
  \A id \in SplitIds :
    splits[id].exists
    => /\ splits[id].settled
          => \A i \in 1..Len(participants[id]) :
               /\ participants[id][i].usedOnchainAt # NULL
               /\ \E s \in SplitSignatures(id) :
                    /\ signatures[s].participant = participants[id][i].participant
                    /\ signatures[s].status = "USED_ONCHAIN"
       /\ ((\E i \in 1..Len(participants[id]) : participants[id][i].usedOnchainAt # NULL)
           \/ (\E s \in SplitSignatures(id) : signatures[s].status = "USED_ONCHAIN"))
          => splits[id].settled

(***************************************************************************)
(* Submissions on a row used on-chain (checked under SpecSeq)              *)
(***************************************************************************)
\* C25: submitSignature for a (participant, salt) whose signature row
\* already has status USED_ONCHAIN fails with the conflict error kind
\* (ConflictException) and changes nothing.
C25_UsedOnchainRowIsAConflict ==
  [][(/\ pc[1] = "idle"
      /\ pc'[1] = "idle"
      /\ now' = now
      /\ last'.op = "submitSignature"
      /\ last'.sig # 0
      /\ signatures[last'.sig].exists
      /\ signatures[last'.sig].status = "USED_ONCHAIN")
     => /\ last'.status = "ConflictException"
        /\ UNCHANGED store]_vars

\* a submission for a row used on-chain, answered
C25_SubmissionOnUsedRow ==
  /\ last.op = "submitSignature"
  /\ last.ev = "return"
  /\ last.sig # 0
  /\ signatures[last.sig].exists
  /\ signatures[last.sig].status = "USED_ONCHAIN"

(***************************************************************************)
(* Preconditions of createSplit (checked under SpecSeq)                    *)
(***************************************************************************)
\* the answer the ordered preconditions give on the legs of a request: no
\* leg or an amount not above 0 is invalid_input, then two legs of one
\* address (whatever its letter case) are a conflict
FirstFailingPrecondition(legs) ==
  IF legs = <<>> THEN "BadRequestException"
  ELSE IF \E i \in 1..Len(legs) : legs[i].amount < 1 THEN "BadRequestException"
  ELSE IF \E i, j \in 1..Len(legs) :
            i < j /\ toLowerCase(legs[i].participant) = toLowerCase(legs[j].participant)
    THEN "ConflictException"
  ELSE "ok"

\* C26: createSplit checks its preconditions in the order: non-empty legs,
\* every amount > 0 (invalid_input), participants unique after checksum
\* normalization (conflict), total > 0; the error returned is that of the
\* first failing check (a request with both a non-positive amount and a
\* duplicate participant gets invalid_input), and a failing request inserts
\* no Split or participant row and makes no chain call.
C26_PreconditionsInOrder ==
  /\ [](\A dto \in CreateSplitDtos :
          (/\ pc[1] = "idle"
           /\ nextSplitId = 1
           /\ FirstFailingPrecondition(dto.legs) # "ok")
          => ENABLED (/\ CreateSplit(1, dto)
                      /\ last' = Ret("createSplit", NULL,
                                     FirstFailingPrecondition(dto.legs), "precondition")
                      /\ pc' = pc
                      /\ UNCHANGED store))
  /\ [][(/\ pc[1] = "idle"
         /\ last'.op = "createSplit"
         /\ last'.ev = "return"
         /\ last'.split = NULL)
        => /\ last'.status \in {"BadRequestException", "ConflictException"}
           /\ pc' = pc
           /\ UNCHANGED store]_vars

\* a request with duplicate participants refused on an empty store
C26_DuplicateRefused ==
  /\ last = Ret("createSplit", NULL, "ConflictException", "precondition")
  /\ \A id \in SplitIds : ~splits[id].exists /\ participants[id] = <<>>

(***************************************************************************)
(* Receipts of on-chain creation (SpecReceipt): a service with an executor *)
(* key creates splits on-chain, one request at a time; the receipt's logs  *)
(* come from the coordinator or from other contracts; approvals follow.    *)
(***************************************************************************)
\* a log of a receipt: the emitting address, the event parseLog decodes
\* ("undecodable" when parseLog throws) and the event's splitId argument
Log(address, name, splitId) == [address |-> address, name |-> name, splitId |-> splitId]

\* the id carried by SplitCreated events of contracts other than the coordinator
ForeignOnchainIds == {n + 1 : n \in OnchainIds}

\* receipt.logs: none, events of another contract, other events of the
\* coordinator, and SplitCreated of the coordinator (in either letter case
\* of its address) alone or after another contract's event
ReceiptLogs ==
  {<<>>}
  \cup {<<Log("0xOther", "SplitCreated", f)>> : f \in ForeignOnchainIds}
  \cup {<<Log(Config.contractAddress, "SplitSettled", f)>> : f \in ForeignOnchainIds}
  \cup {<<Log(Config.contractAddress, "undecodable", NULL),
          Log("0xOther", "SplitCreated", f)>> : f \in ForeignOnchainIds}
  \cup {<<Log(Config.contractAddress, "SplitCreated", n)>> : n \in OnchainIds}
  \cup {<<Log("0xOther", "SplitCreated", f),
          Log(toLowerCase(Config.contractAddress), "SplitCreated", n)>> :
          f \in ForeignOnchainIds, n \in OnchainIds}

\* a loop that takes the first SplitCreated event of any contract
onchainIdOfAnyContract(logs) ==
  LET hits == {i \in 1..Len(logs) : logs[i].name = "SplitCreated"}
  IN IF hits = {} THEN NULL
     ELSE logs[CHOOSE i \in hits : \A j \in hits : i <= j].splitId

\* the loop over receipt.logs: the splitId of the first SplitCreated event
\* emitted by the coordinator address, NULL (undefined) when there is none
onchainIdOfReceipt(logs) ==
  LET hits == {i \in 1..Len(logs) :
                 /\ toLowerCase(logs[i].address) = toLowerCase(Config.contractAddress)
                 /\ logs[i].name = "SplitCreated"}
  IN IF hits = {} THEN NULL
     ELSE logs[CHOOSE i \in hits : \A j \in hits : i <= j].splitId

OnchainCreateSplitDtos == {dto \in RaceCreateSplitDtos : dto.createOnchain}

InitReceipt == Init /\ executor = TRUE

NextReceipt ==
  \/ \E dto \in OnchainCreateSplitDtos : CreateSplit(1, dto)
  \/ \E sent \in BOOLEAN : CreateTx(1, sent)
  \/ \E mined \in BOOLEAN, logs \in ReceiptLogs : CreateReceipt(1, mined, onchainIdOfReceipt(logs))
  \/ \E splitId \in SplitIds, dto \in RaceApproveIntentDtos, salt \in SaltChoices :
       GenerateApproveIntent(1, splitId, dto, salt)
  \/ GenerateInsert(1)
  \/ \E splitId \in SplitIds :
       \E dto \in RaceSubmitSignatureDtos(splitId) : SubmitSignature(1, splitId, dto)
  \/ SubmitWrite(1)

SpecReceipt == InitReceipt /\ [][NextReceipt]_vars

\* whether a receipt carries a SplitCreated event of the coordinator
HasCoordinatorSplitCreated(logs) ==
  \E i \in 1..Len(logs) :
    /\ logs[i].address \in {"0xC0DE", "0xc0de"}
    /\ logs[i].name = "SplitCreated"

\* C27: if createSplit(createOnchain=true) obtains a receipt that contains
\* no SplitCreated event from the coordinator address, the call succeeds
\* with the receipt's txHash and the Split row stays in the store with
\* splitIdOnchain=null; later generateApproveIntent and submitSignature on
\* it are accepted using the local id as splitId; logs emitted by other
\* addresses never set splitIdOnchain.
C27_ReceiptWithoutSplitCreated ==
  /\ [](\A logs \in ReceiptLogs :
          (pc[1] = "create_wait" /\ ~HasCoordinatorSplitCreated(logs))
          => ENABLED (/\ CreateReceipt(1, TRUE, onchainIdOfReceipt(logs))
                      /\ last' = Ret("createSplit", local[1].split, "ok", "txHash receipt")
                      /\ splits'[local[1].split].exists
                      /\ splits'[local[1].split].splitIdOnchain = NULL))
  /\ [](\A id \in SplitIds :
          splits[id].exists => splits[id].splitIdOnchain \notin ForeignOnchainIds)
  /\ [](\A id \in SplitIds :
          (splits[id].exists /\ splits[id].splitIdOnchain = NULL)
          => /\ (pc[1] = "gen_insert" /\ local[1].split = id)
                => local[1].message.splitId = id
             /\ \A s \in SplitSignatures(id) :
                  signatures[s].status = "VALID"
                  => signatures[s].signature.message.splitId = id)

\* a split created on-chain whose receipt gave no on-chain id, with an
\* approval signed over the local id accepted
C27_ApprovedUnderLocalId ==
  /\ splits[1].exists
  /\ splits[1].splitIdOnchain = NULL
  /\ last = SubmitRet(1, "ok", "VALID", 1)
  /\ signatures[1].signature.message.splitId = 1

(***************************************************************************)
(* Approval intents (checked under SpecSeq)                                *)
(***************************************************************************)
\* the signature rows inserted by a step
InsertedRows == {s \in SigIds : ~signatures[s].exists /\ signatures'[s].exists}

\* whether address is the participant of a leg of split id
IsLegOf(id, address) ==
  \E i \in 1..Len(participants[id]) :
    toLowerCase(participants[id][i].participant) = toLowerCase(address)

\* C28: a successful generateApproveIntent inserts exactly one new
\* signature row with status PENDING, amount equal to the participant's leg
\* amount, the resolved deadline, a fresh salt (one that no row of the same
\* split and participant carries) and an empty signature, and changes no
\* other row (no Split, participant or existing signature row); a call for
\* an address that is not a leg of the split fails with not_found
\* (NotFoundException) and inserts nothing.
C28_IntentInsertsOnePendingRow ==
  /\ [][(/\ pc[1] = "gen_insert"
         /\ last'.op = "generateApproveIntent"
         /\ last'.ev = "return"
         /\ last'.status = "ok")
        => /\ Cardinality(InsertedRows) = 1
           /\ \A s \in InsertedRows :
                /\ signatures'[s].splitId = last'.split
                /\ signatures'[s].status = "PENDING"
                /\ signatures'[s].signature = EmptySignature
                /\ \E i \in 1..Len(participants[last'.split]) :
                     /\ participants[last'.split][i].participant = signatures'[s].participant
                     /\ participants[last'.split][i].amount = signatures'[s].amount
                /\ signatures'[s].deadline = local[1].row.deadline
                /\ \A t \in SigIds \ {s} :
                     /\ signatures'[t] = signatures[t]
                     /\ (/\ signatures[t].exists
                         /\ signatures[t].splitId = signatures'[s].splitId
                         /\ signatures[t].participant = signatures'[s].participant)
                        => signatures[t].salt # signatures'[s].salt
           /\ UNCHANGED <<splits, participants>>]_vars
  /\ [][(/\ last'.op = "generateApproveIntent"
         /\ last'.ev = "return"
         /\ last'.status # "ok")
        => UNCHANGED store]_vars
  /\ [](\A dto \in ApproveIntentDtos, salt \in SaltChoices :
          (/\ pc[1] = "idle"
           /\ nextSigId = 1
           /\ splits[1].exists
           /\ ~splits[1].settled
           /\ ~IsLegOf(1, dto.participant))
          => ENABLED (/\ GenerateApproveIntent(1, 1, dto, salt)
                      /\ last' = Ret("generateApproveIntent", 1, "NotFoundException",
                                     "Participante nao encontrado")
                      /\ pc' = pc
                      /\ UNCHANGED store))

\* a second intent recorded next to the first
C28_SecondIntentRecorded ==
  /\ last.op = "generateApproveIntent"
  /\ last.ev = "return"
  /\ last.status = "ok"
  /\ signatures[1].exists
  /\ signatures[2].exists
  /\ signatures[2].status = "PENDING"

(***************************************************************************)
(* Deadlines of approval intents (SpecDeadline): one single-leg split,     *)
(* with or without a deadline of its own, receives approval intents with   *)
(* every kind of client deadline, one request at a time.                   *)
(***************************************************************************)
\* the split's deadline falls in second 1
DeadlineCreateSplitDtos ==
  [payer : {"0xPayer"}, token : {"0xToken"}, legs : {<<Leg("0xa", 1)>>},
   deadline : CreateDeadlineInputs, createOnchain : {FALSE}]

\* dto.deadline of generateApproveIntent: absent, "0", digits within and
\* beyond the split's deadline, an ISO date inside second 0 of the epoch and
\* one inside second 1
WideIntentDeadlineInputs ==
  {DeadlineAbsent, DeadlineDigits(0), DeadlineDigits(1), DeadlineDigits(2),
   DeadlineIso(MsPerSecond - 1), DeadlineIso(2 * MsPerSecond - 1)}

DeadlineApproveIntentDtos == [participant : {"0xa"}, deadline : WideIntentDeadlineInputs]

NextDeadline ==
  \/ \E dto \in DeadlineCreateSplitDtos : nextSplitId \in SeqSplitIds /\ CreateSplit(1, dto)
  \/ \E dto \in DeadlineApproveIntentDtos, salt \in SaltChoices :
       GenerateApproveIntent(1, 1, dto, salt)
  \/ GenerateInsert(1)

SpecDeadline == Init /\ [][NextDeadline]_vars

\* the deadline a request asks for, as a date: the split's own when the
\* client gives none, none for "0", else the client's
RequestedDate(requested, splitDeadline) ==
  CASE requested.kind = "absent" -> splitDeadline
    [] requested.kind = "digits" ->
         IF requested.value = 0 THEN NULL ELSE requested.value * MsPerSecond
    [] requested.kind = "iso" -> requested.date

\* Unix seconds of a stored deadline, 0 for none
UnixOfStored(date) == IF date = NULL THEN 0 ELSE date \div MsPerSecond

\* C29: deadline resolution in generateApproveIntent: with no client
\* deadline the intent inherits the split's deadline (no expiry when the
\* split has none); a client deadline of "0" yields no expiry (unix 0, null
\* date); any other accepted client deadline is stored unchanged; and the
\* deadline written in the returned typed-data message always equals the
\* Unix-seconds value of the deadline stored in the signature row (0 for
\* null).
C29_DeadlineResolution ==
  /\ \A dto \in DeadlineApproveIntentDtos, salt \in SaltChoices :
       (pc[1] = "idle" /\ splits[1].exists /\ ~signatures[MaxSigs].exists)
       => ENABLED (/\ GenerateApproveIntent(1, 1, dto, salt)
                   /\ pc'[1] = "gen_insert"
                      => /\ local'[1].row.deadline
                              = RequestedDate(dto.deadline, splits[1].deadline)
                         /\ local'[1].message.deadline
                              = UnixOfStored(local'[1].row.deadline))
  /\ pc[1] = "gen_insert"
     => local[1].message.deadline = UnixOfStored(local[1].row.deadline)

\* an intent with a client deadline in second 1 recorded with that deadline
C29_ClientDeadlineStored ==
  /\ last.op = "generateApproveIntent"
  /\ last.ev = "return"
  /\ last.status = "ok"
  /\ signatures[1].exists
  /\ signatures[1].deadline = 2 * MsPerSecond - 1

(***************************************************************************)
(* The arguments of contract.settleSplit (checked under SpecSeq)           *)
(***************************************************************************)
\* the amount of the leg of split id that address holds
LegAmount(id, address) ==
  LET i == CHOOSE j \in 1..Len(participants[id]) :
             toLowerCase(participants[id][j].participant) = toLowerCase(address)
  IN participants[id][i].amount

C31_CountMismatchRefused ==
  /\ []((last.ev = "call" /\ last.op = "settleSplit")
        => Len(last.items) = Len(participants[last.split]))
  /\ []((/\ pc[1] = "idle"
         /\ splits[1].exists
         /\ ~splits[1].settled
         /\ nextSigId = 1)
        => ENABLED (/\ SettleSplit(1, 1, <<>>)
                    /\ last' = Ret("settleSplit", 1, "BadRequestException",
                                   "Numero de assinaturas nao corresponde")
                    /\ pc' = pc
                    /\ UNCHANGED store))
  /\ [][(/\ pc[1] = "idle"
         /\ last'.op = "settleSplit"
         /\ last'.ev = "return"
         /\ last'.msg = "Numero de assinaturas nao corresponde")
        => /\ last'.status = "BadRequestException"
           /\ pc' = pc
           /\ UNCHANGED store]_vars

\* settleSplit refused on a two-leg split of which one leg has approved
C31_OneOfTwoLegsApproved ==
  /\ last = Ret("settleSplit", 1, "BadRequestException", "Numero de assinaturas nao corresponde")
  /\ Len(participants[1]) = 2
  /\ Cardinality({s \in SplitSignatures(1) : signatures[s].status = "VALID"}) = 1

(***************************************************************************)
(* approvedOffchainAt (checked under SpecSeq)                              *)
(***************************************************************************)
\* C32: a participant's approvedOffchainAt is written when a VALID
\* signature is first recorded for that participant and is never changed
\* afterwards by any later generateApproveIntent, submitSignature or
\* settleSplit call.
C32_ApprovedOffchainAtWrittenOnce ==
  [][\A id \in SplitIds :
       splits'[id].exists
       => \A i \in 1..Len(participants[id]) :
            participants[id][i].approvedOffchainAt # NULL
            => participants'[id][i].approvedOffchainAt
                 = participants[id][i].approvedOffchainAt]_vars

\* a participant approved through a second intent, a second after the first
C32_ApprovedTwice ==
  /\ \A s \in SigIds : signatures[s].exists /\ signatures[s].status = "VALID"
                       /\ signatures[s].participant = "0xA"
  /\ last = SubmitRet(1, "ok", "VALID", 2)

(***************************************************************************)
(* Settlement after re-issued intents (checked under SpecSeq)              *)
(***************************************************************************)
\* every participant of split id has at least one VALID signature row
EveryLegApproved(id) ==
  \A i \in 1..Len(participants[id]) :
    \E s \in SplitSignatures(id) :
      /\ signatures[s].participant = participants[id][i].participant
      /\ signatures[s].status = "VALID"

\* C33: settlement is not blocked by re-issued intents: in every reachable
\* state of an unsettled split in which every participant has at least one
\* VALID signature row, settleSplit called with no items passes the
\* item-count check and reaches the on-chain call (it does not fail with
\* the signature count mismatch error).
C33_ReissuedIntentsDoNotBlock ==
  (/\ pc[1] = "idle"
   /\ executor
   /\ splits[1].exists
   /\ ~splits[1].settled
   /\ EveryLegApproved(1))
  => ENABLED (/\ SettleSplit(1, 1, <<>>)
              /\ pc'[1] = "settle_tx"
              /\ last'.ev = "call")

\* an unsettled single-leg split whose participant has approved through
\* two intents: two VALID rows for one leg
C33_TwoValidRowsForOneLeg ==
  /\ pc[1] = "idle"
  /\ executor
  /\ splits[1].exists
  /\ ~splits[1].settled
  /\ Len(participants[1]) = 1
  /\ EveryLegApproved(1)
  /\ Cardinality({s \in SplitSignatures(1) : signatures[s].status = "VALID"}) = 2

(***************************************************************************)
(* C34: success of submitSignature and the supplied signature.             *)
(***************************************************************************)
\* the signature of a request recovers, over the typed data rebuilt from the
\* stored fields of the row with its salt, to the participant of the request
RecoversToParticipant(splitId, dto) ==
  LET participant == getAddress(dto.participant)
      leg == FindLeg(splitId, participant)
      sigId == FindSignature(splitId, participant, dto.salt)
  IN /\ leg # 0
     /\ sigId # 0
     /\ toLowerCase(verifyTypedData(
          ApproveSplitMessage(participant, resolveSplitIdForSigning(splitId),
            splits[splitId].token, splits[splitId].payer,
            participants[splitId][leg].amount,
            DateToUnix(signatures[sigId].deadline), dto.salt),
          dto.signature)) = toLowerCase(participant)

\* the signature of a request is the one already stored for its salt
RestatesStoredSignature(splitId, dto) ==
  LET sigId == FindSignature(splitId, getAddress(dto.participant), dto.salt)
  IN sigId # 0 /\ signatures[sigId].signature = dto.signature

\* C34: submitSignature answers with success, or goes on to its write, only
\* for a request whose signature recovers to the participant over the typed
\* data rebuilt from the stored fields, or equals the signature already stored
\* for the salt; a signature of another signer or over another deadline is
\* never answered with success, whatever the status of the row.
C34_SuccessOnlyForParticipantSignature ==
  [][\A dto \in SubmitSignatureDtos(1) :
       (/\ SubmitSignature(1, 1, dto)
        /\ \/ pc'[1] = "submit_write"
           \/ last'.ev = "return" /\ last'.status = "ok")
       => \/ RecoversToParticipant(1, dto)
          \/ RestatesStoredSignature(1, dto)]_vars

\* submitSignature has answered with success on a row that was VALID already
C34_AnsweredOnValidRow ==
  /\ last = SubmitRet(1, "ok", "already VALID", 1)
  /\ signatures[1].status = "VALID"

(***************************************************************************)
(* C35: createSplit after the receipt (SpecPersist).  The handler is cut   *)
(* once more, at the await of prisma.split.update that stores the decoded  *)
(* splitIdOnchain: the update sits in the try block whose catch deletes    *)
(* the split, so its rejection takes the same path as a failed send.       *)
(***************************************************************************)
\* await tx.wait() resolved with a receipt carrying the coordinator's
\* SplitCreated id: the handler goes on to the update of the Split row
CreateReceiptObtained(p, onchainId) ==
  /\ pc[p] = "create_wait"
  /\ Suspend(p, "create_persist",
             [op |-> "createSplit", split |-> local[p].split, onchainId |-> onchainId],
             Suspended("createSplit", local[p].split))
  /\ UNCHANGED <<store, users, executor, now>>

\* await prisma.split.update({ splitIdOnchain }): the row is updated and the
\* call returns, or the update rejects and the catch block deletes the split
CreatePersist(p, persisted) ==
  /\ pc[p] = "create_persist"
  /\ LET id == local[p].split
         onchainId == local[p].onchainId
     IN IF persisted
        THEN /\ splits' = [splits EXCEPT ![id] = SetSplitIdOnchain(splits[id], onchainId)]
             /\ Finish(p, Ret("createSplit", id, "ok", "txHash receipt"))
             /\ UNCHANGED <<participants, signatures, nextSplitId, nextSigId, users, executor, now>>
        ELSE /\ DeleteSplit(id)
             /\ Finish(p, Ret("createSplit", id, "BadRequestException", "Falha ao criar split on-chain"))
             /\ UNCHANGED <<nextSplitId, nextSigId, users, executor, now>>

NextPersist ==
  \/ \E p \in Procs, dto \in RaceCreateSplitDtos : CreateSplit(p, dto)
  \/ \E p \in Procs, sent \in BOOLEAN : CreateTx(p, sent)
  \/ \E p \in Procs, mined \in BOOLEAN : CreateReceipt(p, mined, NULL)
  \/ \E p \in Procs, onchainId \in OnchainIds : CreateReceiptObtained(p, onchainId)
  \/ \E p \in Procs, persisted \in BOOLEAN : CreatePersist(p, persisted)
  \/ \E p \in Procs, splitId \in SplitIds, dto \in RaceApproveIntentDtos, salt \in SaltChoices :
       GenerateApproveIntent(p, splitId, dto, salt)
  \/ \E p \in Procs : GenerateInsert(p)

SpecPersist == Init /\ [][NextPersist]_vars

\* C35: createSplit deletes the Split row it inserted only when the on-chain
\* transaction was not mined: once the receipt has been obtained, no step of
\* the handler removes the row, even when persisting splitIdOnchain fails.
C35_RowKeptOnceReceiptObtained ==
  [][\A p \in Procs :
       (pc[p] = "create_persist" /\ pc'[p] = "idle")
       => splits'[local[p].split].exists]_vars

\* a createSplit holding the receipt of its transaction, about to store the
\* on-chain id on the row it inserted
C35_ReceiptObtained ==
  /\ pc[1] = "create_persist"
  /\ splits[local[1].split].exists

(***************************************************************************)
(* C36: BotService.sendMessage (SpecSend).  Handler slots send messages    *)
(* through the Telegram client; pc, local, now and last are used as for    *)
(* the splits handlers, the store is not touched.                          *)
(***************************************************************************)
MAX_RETRIES == 3
\* 2000 ms
RETRY_DELAY == 2 * MsPerSecond

SendChatIds == {"chat1", "chat2"}
\* what a rejected bot.sendMessage rejects with
SendErrors == {"ETELEGRAM", "EFATAL"}

\* the TelegramBot.Message that bot.sendMessage resolves with
SentMessage(chatId, attempt) == [chat |-> chatId, attempt |-> attempt]

\* sendMessage's outcome: the message returned or the error thrown, with the
\* errors of the rejected attempts and the times at which attempts were made
SendRet(status, result, errors, times) ==
  [op |-> "sendMessage", ev |-> "return", status |-> status, result |-> result,
   errors |-> errors, times |-> times]

\* a looser retry condition
MayRetryAtMax(attempt) == attempt <= MAX_RETRIES

\* if (attempt < this.MAX_RETRIES)
MayRetry(attempt) == attempt < MAX_RETRIES

\* a catch block that rethrows the first error it saw
RethrowFirst(errors) == errors[1]

\* throw error: the error caught by this invocation, the last one
Rethrown(errors) == errors[Len(errors)]

\* a timer that may fire at once
TimerDueAtOnce(at, ms) == at

\* setTimeout(resolve, ms) armed at time at: not fired before at + ms
TimerDue(at, ms) == at + ms

\* sendMessage -> sendMessageWithRetry(chatId, text, options, 1), up to the
\* await of bot.sendMessage
SendMessage(p, chatId) ==
  /\ Idle(p)
  /\ now <= MaxNowSeconds * MsPerSecond
  /\ Suspend(p, "send_call",
             [op |-> "sendMessage", chat |-> chatId, attempt |-> 1, errors |-> <<>>,
              times |-> <<now>>, wake |-> NULL],
             [op |-> "sendMessage", ev |-> "await"])
  /\ UNCHANGED <<store, users, executor, now>>

\* await this.bot.sendMessage(...) settles: resolved, the message is returned;
\* rejected, the catch block sleeps before the next attempt or rethrows
BotSendMessage(p, outcome) ==
  /\ pc[p] = "send_call"
  /\ LET l == local[p]
         errors == Append(l.errors, outcome)
     IN IF outcome = "sent"
        THEN Finish(p, SendRet("ok", SentMessage(l.chat, l.attempt), l.errors, l.times))
        ELSE IF MayRetry(l.attempt)
        THEN Suspend(p, "send_sleep",
                     [l EXCEPT !.errors = errors, !.wake = TimerDue(now, RETRY_DELAY)],
                     [op |-> "sendMessage", ev |-> "await"])
        ELSE Finish(p, SendRet("throw", Rethrown(errors), errors, l.times))
  /\ UNCHANGED <<store, users, executor, now>>

\* await this.sleep(RETRY_DELAY) resolves, timers firing in the order of their
\* due times and not before them: the recursive call makes the next attempt
SleepElapsed(p) ==
  /\ pc[p] = "send_sleep"
  /\ \A q \in Procs : pc[q] = "send_sleep" => local[p].wake <= local[q].wake
  /\ now' = IF now < local[p].wake THEN local[p].wake ELSE now
  /\ Suspend(p, "send_call",
             [local[p] EXCEPT !.attempt = @ + 1, !.times = Append(@, now'), !.wake = NULL],
             [op |-> "sendMessage", ev |-> "await"])
  /\ UNCHANGED <<store, users, executor>>

NextSend ==
  \/ \E p \in Procs, chatId \in SendChatIds : SendMessage(p, chatId)
  \/ \E p \in Procs, outcome \in {"sent"} \cup SendErrors : BotSendMessage(p, outcome)
  \/ \E p \in Procs : SleepElapsed(p)

\* every call to the Telegram client settles and every timer fires
SpecSend ==
  /\ Init
  /\ [][NextSend]_vars
  /\ \A p \in Procs :
       /\ WF_vars(\E outcome \in {"sent"} \cup SendErrors : BotSendMessage(p, outcome))
       /\ WF_vars(SleepElapsed(p))

\* consecutive attempts are at least RETRY_DELAY apart
SpacedByRetryDelay(times) ==
  \A i \in 1..(Len(times) - 1) : times[i + 1] - times[i] >= RETRY_DELAY

\* C36: sendMessage ends after at most MAX_RETRIES = 3 attempts: it returns
\* the message of the first attempt that succeeds, without another attempt;
\* when all three attempts fail it rethrows the error of the last one; it
\* waits RETRY_DELAY between consecutive attempts and never makes a fourth.
C36_AtMostThreeAttempts ==
  /\ [](\A p \in Procs :
          pc[p] \in {"send_call", "send_sleep"}
          => /\ local[p].attempt \in 1..MAX_RETRIES
             /\ Len(local[p].times) = local[p].attempt
             /\ SpacedByRetryDelay(local[p].times)
             /\ pc[p] = "send_sleep" => local[p].attempt < MAX_RETRIES)
  /\ [][\A p \in Procs :
          (pc[p] = "send_call" /\ pc'[p] = "idle")
          => /\ last'.op = "sendMessage" /\ last'.ev = "return"
             /\ last'.times = local[p].times
             /\ SpacedByRetryDelay(last'.times)
             /\ \/ /\ last'.status = "ok"
                   /\ last'.result = SentMessage(local[p].chat, Len(last'.times))
                   /\ last'.errors = local[p].errors
                   /\ Len(last'.errors) = Len(last'.times) - 1
                \/ /\ last'.status = "throw"
                   /\ Len(last'.times) = MAX_RETRIES
                   /\ Len(last'.errors) = MAX_RETRIES
                   /\ SubSeq(last'.errors, 1, MAX_RETRIES - 1) = local[p].errors
                   /\ last'.result = last'.errors[MAX_RETRIES]]_vars
  /\ \A p \in Procs : (pc[p] = "send_call") ~> (pc[p] = "idle")

\* a sendMessage that failed three times with different errors and rethrew
\* the last of them
C36_ThirdErrorRethrown ==
  /\ last.op = "sendMessage"
  /\ last.ev = "return"
  /\ last = SendRet("throw", "EFATAL", <<"ETELEGRAM", "ETELEGRAM", "EFATAL">>, last.times)
  /\ Len(last.times) = MAX_RETRIES

(***************************************************************************)
(* C37: AccountService.linkWallet (SpecLink).  Handler slots link wallets  *)
(* to Telegram handles, interleaving at their awaits; the table User has   *)
(* unique indexes on walletAddress and on telegramHandle.                  *)
(***************************************************************************)
LinkWallets == {"w1", "w2"}
LinkHandles == {"t1", "t2"}
LinkWalletDtos == [telegram : LinkHandles, pubkey : LinkWallets]

UserRow(id, walletAddress, telegramHandle) ==
  [id |-> id, walletAddress |-> walletAddress, telegramHandle |-> telegramHandle]

\* prisma.user.findUnique({ where: { walletAddress } }): the row's id, 0 for null
FindUserByWallet(walletAddress) ==
  IF \E i \in 1..Len(users) : users[i].walletAddress = walletAddress
  THEN CHOOSE i \in 1..Len(users) : users[i].walletAddress = walletAddress
  ELSE 0

\* prisma.user.findUnique({ where: { telegramHandle } })
FindUserByHandle(telegramHandle) ==
  IF \E i \in 1..Len(users) : users[i].telegramHandle = telegramHandle
  THEN CHOOSE i \in 1..Len(users) : users[i].telegramHandle = telegramHandle
  ELSE 0

\* a table User without its unique indexes
NoUserIndexes(rows) == TRUE

\* User_walletAddress_key and User_telegramHandle_key admit the rows
UserIndexesAdmit(rows) ==
  \A i, j \in 1..Len(rows) :
    i # j => /\ rows[i].walletAddress # rows[j].walletAddress
             /\ rows[i].telegramHandle # rows[j].telegramHandle

\* linkWallet's answer: status "ok" or the exception thrown
LinkRet(dto, status, msg) ==
  [op |-> "linkWallet", ev |-> "return", telegram |-> dto.telegram, pubkey |-> dto.pubkey,
   status |-> status, msg |-> msg]

\* linkWallet up to its second read: the lookup by wallet, answered at once
\* when the wallet already carries the handle
LinkWallet(p, dto) ==
  /\ Idle(p)
  /\ LET existingUser == FindUserByWallet(dto.pubkey)
     IN IF existingUser # 0 /\ users[existingUser].telegramHandle = dto.telegram
        THEN Finish(p, LinkRet(dto, "ok", "Wallet ja vinculada a este Telegram"))
        ELSE Suspend(p, "link_find_telegram",
                     [op |-> "linkWallet", telegram |-> dto.telegram, pubkey |-> dto.pubkey,
                      existingUser |-> existingUser],
                     [op |-> "linkWallet", ev |-> "await"])
  /\ UNCHANGED <<store, users, executor, now>>

\* the lookup by handle and the check made on it, up to the write
LinkFindTelegram(p) ==
  /\ pc[p] = "link_find_telegram"
  /\ LET l == local[p]
         telegramInUse == FindUserByHandle(l.telegram)
     IN IF l.existingUser # 0
        THEN IF telegramInUse # 0 /\ users[telegramInUse].id # l.existingUser
             THEN Finish(p, LinkRet(l, "ConflictException", "Este Telegram ja esta vinculado a outra wallet"))
             ELSE Suspend(p, "link_update", l, [op |-> "linkWallet", ev |-> "await"])
        ELSE IF telegramInUse # 0
             THEN Finish(p, LinkRet(l, "ConflictException", "Este Telegram ja esta vinculado a outra wallet"))
             ELSE Suspend(p, "link_create", l, [op |-> "linkWallet", ev |-> "await"])
  /\ UNCHANGED <<store, users, executor, now>>

\* prisma.user.update({ where: { id }, data: { telegramHandle } })
LinkUpdate(p) ==
  /\ pc[p] = "link_update"
  /\ LET l == local[p]
         rows == [users EXCEPT ![l.existingUser].telegramHandle = l.telegram]
     IN IF UserIndexesAdmit(rows)
        THEN /\ users' = rows
             /\ Finish(p, LinkRet(l, "ok", "Telegram atualizado com sucesso"))
        ELSE /\ users' = users
             /\ Finish(p, LinkRet(l, "PrismaError", "P2002 unique constraint failed"))
  /\ UNCHANGED <<store, executor, now>>

\* prisma.user.create({ data: { walletAddress, telegramHandle } })
LinkCreate(p) ==
  /\ pc[p] = "link_create"
  /\ LET l == local[p]
         rows == Append(users, UserRow(Len(users) + 1, l.pubkey, l.telegram))
     IN IF UserIndexesAdmit(rows)
        THEN /\ users' = rows
             /\ Finish(p, LinkRet(l, "ok", "Wallet vinculada com sucesso"))
        ELSE /\ users' = users
             /\ Finish(p, LinkRet(l, "PrismaError", "P2002 unique constraint failed"))
  /\ UNCHANGED <<store, executor, now>>

NextLink ==
  \/ \E p \in Procs, dto \in LinkWalletDtos : LinkWallet(p, dto)
  \/ \E p \in Procs : LinkFindTelegram(p)
  \/ \E p \in Procs : LinkUpdate(p)
  \/ \E p \in Procs : LinkCreate(p)

SpecLink == Init /\ [][NextLink]_vars

\* the handle is linked to a wallet other than the given one
LinkedToOtherWallet(telegramHandle, walletAddress) ==
  \E i \in 1..Len(users) :
    /\ users[i].telegramHandle = telegramHandle
    /\ users[i].walletAddress # walletAddress

\* no two User rows share a wallet address and no two share a handle
C37_UsersUnique ==
  /\ Cardinality({users[i].walletAddress : i \in 1..Len(users)}) = Len(users)
  /\ Cardinality({users[i].telegramHandle : i \in 1..Len(users)}) = Len(users)

\* a linkWallet call answered with success changes nothing when repeated
C37_RepeatChangesNothing ==
  \A dto \in LinkWalletDtos :
    (/\ pc[1] = "idle"
     /\ \E i \in 1..Len(users) :
          users[i].walletAddress = dto.pubkey /\ users[i].telegramHandle = dto.telegram)
    => ENABLED (/\ LinkWallet(1, dto)
                /\ last'.status = "ok"
                /\ pc' = pc
                /\ users' = users)

\* a call ending while its handle is linked to another wallet ends with a
\* conflict and changes no row
C37_ConflictOnLinkedHandle ==
  [][\A p \in Procs :
       (/\ pc[p] \in {"link_find_telegram", "link_update", "link_create"}
        /\ pc'[p] = "idle"
        /\ LinkedToOtherWallet(local[p].telegram, local[p].pubkey))
       => /\ last'.status = "ConflictException"
          /\ users' = users]_vars

\* C37: after any sequence or interleaving of linkWallet calls no two User
\* rows share a wallet address and no two share a telegram handle; a call
\* that would bind a handle already linked to a different wallet fails with
\* a conflict and leaves every User row unchanged; repeating a successful
\* call changes nothing.
C37_LinkWalletKeepsHandlesUnique ==
  /\ []C37_UsersUnique
  /\ []C37_RepeatChangesNothing
  /\ C37_ConflictOnLinkedHandle

\* a linkWallet whose create was rejected by the unique index on the handle,
\* which another call had linked to a different wallet in the meantime
C37_RejectedByUniqueIndex ==
  /\ last.op = "linkWallet"
  /\ last.ev = "return"
  /\ last.status = "PrismaError"
  /\ LinkedToOtherWallet(last.telegram, last.pubkey)

====
